---- MODULE Spec2Model ----
(***************************************************************************)
(* A model of the per-game struct engine of nsmbpy (perGameStructs.py,     *)
(* __init__.py, _common.py, the struct declarations of level.py) and of    *)
(* the numeric field wrappers of nsmbpy2 (base_struct.py).                 *)
(*                                                                         *)
(* Python values are tagged records: None, IntV(n), BoolV(b), BytesV(s),   *)
(* ListV(l),                                                               *)
(* enum members.  A raised exception is the value Err.  A class (a struct  *)
(* or an enum) is the record of what its declaration sets.                 *)
(* Byte strings are sequences of 0..255; offset o is index o + 1.          *)
(***************************************************************************)
EXTENDS Integers, Sequences, FiniteSets, TLC

VARIABLES
    game,       \* the game context of the scenario
    cls,        \* the PerGameStruct subclass of the scenario
    inst,       \* the current instance: field name -> value; Err: load raised
    src,        \* the bytes inst was loaded from (None: inst was constructed)
    prev,       \* the instance whose save() produced src (None: src is raw input)
    nsets,      \* attribute assignments made on inst since it was made
    lastset,    \* the field assigned last on inst (None: none)
    out,        \* result of save(game) on inst (None: not saved since the last change)
    got,        \* <<name, value>> of the last attribute read (None: none)
    items,      \* the list of instances of the block scenario; Err: load_block raised
    blk,        \* the bytes handed to load_block (None: items was built by hand)
    blkout,     \* result of save_block(game, items) (None: not saved)
    reloaded,   \* result of load_block(game, blkout) (None: not reloaded)
    vargs,      \* the arguments a VariesPerGame was constructed with (None: none yet)
    varies,     \* the VariesPerGame constructed from vargs
    vgot,       \* [game, value] of the last get on varies (None: none)
    ecls,       \* the StructFieldEnum subclass of the enum scenario
    emember,    \* a member of ecls (None: none picked)
    eraw,       \* result of emember.save(game) (None: not saved)
    eback,      \* result of ecls.load(game, eraw) (None: not loaded)
    eng,        \* the engine of the field scenario: "nsmbpy" or "nsmbpy2"
    fieldA,     \* the numeric field that is written
    fieldB,     \* a numeric field on the same backing integer as fieldA
    buf,        \* the bytes of the struct before the write
    beforeB,    \* the value of fieldB read from buf (None: not read)
    written,    \* the value written to fieldA (None: nothing written)
    result,     \* the bytes of the struct after the write; Err: the write raised
    afterB,     \* the value of fieldB read from result (None: not read)
    maskarg,    \* IntV of the mask handed to mask_bool to build fieldA (None: not so built)
    \* a BaseStruct instance of nsmbpy2 and the calls made on it
    bstruct,    \* the instance: raw_data and the names in its __dict__
    bcall,      \* the last call, its arguments and its outcome (None: none yet)
    ncalls,     \* the number of calls made
    \* a transformation of ConcreteNumericField applied to a raw value
    trans,      \* the transformation (None: none chosen)
    traw,       \* the raw value
    tvalue,     \* transform(game, traw) (None: not applied; Err: it raised)
    tback,      \* untransform(game, tvalue) (None: not applied)
    \* a PerGameStruct instance and its copy(); list and bytearray values
    \* are references into a heap of objects
    heap,       \* the list and bytearray objects: address -> [t, l]
    pobj,       \* the instance: field name -> value or reference
    pcopy,      \* pobj.copy() (None: not copied)
    ptouched,   \* the instance the last step assigned or mutated: "orig", "copy"
    nops,       \* the number of assignments and mutations made
    \* a BaseStruct built from a caller's buffer; the buffers are objects
    \* of heap
    caller,     \* the bytes or bytearray object handed to the constructor
    aself,      \* the instance: raw_data is a reference (None: not built)
    snap,       \* the object bytes(instance) returned (None: not called)
    \* a LevelCourse: its zones, its sprites and the calls made on it
    zones,      \* the list of zones: records of x, y, width, height, id
    sprites,    \* the list of sprites: records of n (the object), type, x, y, zone_id
    used_sprite_ids,  \* the attribute used_sprite_ids
    cbefore,    \* sprites and used_sprite_ids before the last prepare_for_saving
    nprep,      \* the number of prepare_for_saving calls made
    zpos,       \* the position handed to map_position_to_zone (None: not called)
    zret,       \* what map_position_to_zone returned
    \* the block container of a course file
    cblocks,    \* the list of block byte strings
    cmeta,      \* the metadata byte string
    cend,       \* the endianness, "<" or ">"
    cdata,      \* save_course_blocks(cblocks, cmeta, cend) (None: not saved)
    cloaded,    \* load_course_blocks(cdata, len(cblocks), cend) (None: not loaded)
    \* an array of BaseStruct instances of nsmbpy2
    aitems,     \* the list of instances
    aterm,      \* the terminator byte string
    asaved,     \* save_struct_array(aitems, terminator=aterm) (None: not saved)
    aloaded     \* load_struct_array(asaved, type, terminator=aterm) (None: not loaded)

structVars == <<game, cls, inst, src, prev, nsets, lastset, out, got>>
blockVars == <<items, blk, blkout, reloaded>>
variesVars == <<vargs, varies, vgot>>
enumVars == <<ecls, emember, eraw, eback>>
fieldVars == <<eng, fieldA, fieldB, buf, beforeB, written, result, afterB, maskarg>>
baseVars == <<bstruct, bcall, ncalls>>
transVars == <<trans, traw, tvalue, tback>>

copyVars == <<heap, pobj, pcopy, ptouched, nops>>

\* the variables of the scenarios of the struct engines, and of the others
earlyVars == <<structVars, blockVars, variesVars, enumVars, fieldVars, baseVars, transVars>>
aliasVars == <<caller, aself, snap>>
courseVars == <<zones, sprites, used_sprite_ids, cbefore, nprep, zpos, zret>>
containerVars == <<cblocks, cmeta, cend, cdata, cloaded>>
arrayVars == <<aitems, aterm, asaved, aloaded>>
lateVars == <<copyVars, aliasVars, courseVars, containerVars, arrayVars>>

\* what each of the later scenarios leaves alone
restOfCopy == <<earlyVars, aliasVars, courseVars, containerVars, arrayVars>>
restOfAlias == <<earlyVars, pobj, pcopy, courseVars, containerVars, arrayVars>>
restOfCourse == <<earlyVars, copyVars, aliasVars, containerVars, arrayVars>>
restOfContainer == <<earlyVars, copyVars, aliasVars, courseVars, arrayVars>>
restOfArray == <<earlyVars, copyVars, aliasVars, courseVars, containerVars>>

vars == <<earlyVars, lateVars>>

-----------------------------------------------------------------------------
(* Python values *)

None == [t |-> "none"]
Err == [t |-> "error"]
IntV(n) == [t |-> "int", i |-> n]
BoolV(b) == [t |-> "bool", bl |-> b]
BytesV(s) == [t |-> "bytes", s |-> s]
ListV(l) == [t |-> "list", l |-> l]
\* a str, as the sequence of its code points
StrV(s) == [t |-> "str", s |-> s]
\* the member m of the StructFieldEnum named c, whose member.value is v
EnumV(c, m, v) == [t |-> "enum", c |-> c, m |-> m, value |-> v]

IsInt(v) == v.t = "int"
IsBool(v) == v.t = "bool"
IsBytes(v) == v.t = "bytes"
IsEnum(v) == v.t = "enum"
IsErr(v) == v.t = "error"
IsNone(v) == v.t = "none"

\* bool is a subclass of int: True is 1, False is 0
IsIntLike(v) == IsInt(v) \/ IsBool(v) \/ v.t = "intenum"
AsInt(v) == IF IsBool(v) THEN (IF v.bl THEN 1 ELSE 0) ELSE v.i

\* Python truthiness of a value
Truthy(v) ==
    CASE v.t \in {"int", "intenum"} -> v.i # 0
      [] IsBool(v) -> v.bl
      [] v.t \in {"bytes", "str"} -> Len(v.s) > 0
      [] IsNone(v) -> FALSE
      [] OTHER -> TRUE

-----------------------------------------------------------------------------
(* Python's integer operators.  Python integers are unbounded and behave   *)
(* as two's complement numbers of infinite width; the model computes the   *)
(* bitwise operators on WordBits-bit residues, which is exact as long as   *)
(* the operands fit in WordBits - 1 bits.                                  *)

WordBits == 24

RECURSIVE Pow2(_)
Pow2(n) == IF n = 0 THEN 1 ELSE 2 * Pow2(n - 1)

ToU(x) == x % Pow2(WordBits)
ToS(u) == IF u >= Pow2(WordBits - 1) THEN u - Pow2(WordBits) ELSE u

RECURSIVE AndN(_, _)
AndN(a, b) ==
    IF a = 0 \/ b = 0 THEN 0
    ELSE (a % 2) * (b % 2) + 2 * AndN(a \div 2, b \div 2)

RECURSIVE OrN(_, _)
OrN(a, b) ==
    IF a = 0 THEN b
    ELSE IF b = 0 THEN a
    ELSE (IF a % 2 = 1 \/ b % 2 = 1 THEN 1 ELSE 0) + 2 * OrN(a \div 2, b \div 2)

BitAnd(a, b) == ToS(AndN(ToU(a), ToU(b)))
BitOr(a, b) == ToS(OrN(ToU(a), ToU(b)))
BitNot(a) == (-a) - 1
Shl(a, n) == a * Pow2(n)
Shr(a, n) == a \div Pow2(n)

-----------------------------------------------------------------------------
(* nsmbpy/__init__.py: Game and VariesPerGame *)

Games == {"NSMB", "NSMBW", "NSMB2", "NSMBU", "NSLU", "NSMBUDX"}

\* Game.endianness
endianness(g) == IF g \in {"NSMB", "NSMB2", "NSMBUDX"} THEN "<" ELSE ">"

\* Game.is_wii_u, Game.is_like_nsmbu and the sets built from them
all_wii_u == {"NSMBU", "NSLU"}
all_like_nsmbu == {"NSMBU", "NSLU", "NSMBUDX"}

\* The keyword arguments of VariesPerGame.__init__; an argument left out is None.
NoArgs ==
    [default |-> None, nsmb |-> None, nsmbw |-> None, nsmb2 |-> None,
     nsmbu |-> None, nslu |-> None, nsmbudx |-> None,
     wiiu |-> None, like_nsmbu |-> None]

\* d[m] = v for every m of the set ms
DictSetAll(d, ms, v) == [x \in DOMAIN d \cup ms |-> IF x \in ms THEN v ELSE d[x]]

EmptyDict == [x \in {} |-> None]

\* one "if v is not None: for m in ms: self.per_game[m] = v" of __init__
SetIfGiven(d, ms, v) == IF v = None THEN d ELSE DictSetAll(d, ms, v)

\* VariesPerGame.__init__: the individual arguments first (innermost), then
\* wiiu, then like_nsmbu (outermost), each overwriting what came before
VariesPerGame(a) ==
    [default |-> a.default,
     per_game |->
        SetIfGiven(SetIfGiven(
            SetIfGiven(SetIfGiven(SetIfGiven(
                SetIfGiven(SetIfGiven(SetIfGiven(EmptyDict,
                    {"NSMB"}, a.nsmb),
                    {"NSMBW"}, a.nsmbw),
                    {"NSMB2"}, a.nsmb2),
                {"NSMBU"}, a.nsmbu),
                {"NSLU"}, a.nslu),
                {"NSMBUDX"}, a.nsmbudx),
            all_wii_u, a.wiiu),
            all_like_nsmbu, a.like_nsmbu)]

\* a get that forgets the default: a faulty variant, under which C17 breaks
VariesGet_nodefault(v, g) == IF g \in DOMAIN v.per_game THEN v.per_game[g] ELSE None

\* VariesPerGame.get
VariesGet(v, g) == IF g \in DOMAIN v.per_game THEN v.per_game[g] ELSE v.default

-----------------------------------------------------------------------------
(* Python's struct module, for the format characters the modelled structs  *)
(* use: B, H and I unsigned, b, h and i signed; < little endian, > big     *)
(* endian.  The checker's integers end at 2 ** 31 - 1, so 2 ** 32 is never *)
(* computed: the four-byte formats are modelled through HalfRange, and an  *)
(* unsigned number of 2 ** 31 or more stops the check instead of wrapping. *)

\* struct.calcsize(format_char)
calcsize(fc) ==
    IF fc \in {"B", "b"} THEN 1 ELSE IF fc \in {"H", "h"} THEN 2 ELSE 4

IsSignedFormat(fc) == fc \in {"b", "h", "i"}

\* 2 ** (8 * calcsize - 1) - 1: the greatest value of the signed format
HalfRange(fc) == IF calcsize(fc) = 4 THEN 2147483647 ELSE Pow2(8 * calcsize(fc) - 1) - 1

\* the least and the greatest value struct.pack accepts for the format (the
\* greatest of the unsigned one- and two-byte formats; InPackRange handles I)
PackMin(fc) == IF IsSignedFormat(fc) THEN -HalfRange(fc) - 1 ELSE 0
PackMax(fc) ==
    IF IsSignedFormat(fc) THEN HalfRange(fc)
    ELSE Pow2(8 * calcsize(fc)) - 1

\* struct.pack accepts the integer v for the format; every integer of the
\* model is below 2 ** 32, the bound of I
InPackRange(fc, v) ==
    /\ v >= PackMin(fc)
    /\ (IsSignedFormat(fc) \/ calcsize(fc) < 4) => v <= PackMax(fc)

Reverse(s) == [i \in 1..Len(s) |-> s[Len(s) + 1 - i]]

\* the unsigned number with the big-endian bytes bs
RECURSIVE BytesToNat(_)
BytesToNat(bs) ==
    IF Len(bs) = 0 THEN 0
    ELSE 256 * BytesToNat(SubSeq(bs, 1, Len(bs) - 1)) + bs[Len(bs)]

\* the n big-endian bytes of the unsigned number u
RECURSIVE NatToBytes(_, _)
NatToBytes(u, n) ==
    IF n = 0 THEN <<>>
    ELSE Append(NatToBytes(u \div 256, n - 1), u % 256)

\* the number the format reads from the big-endian bytes be: two's
\* complement for a signed format whose top bit is set
FromBytes(fc, be) ==
    IF IsSignedFormat(fc) /\ be[1] >= 128
    THEN BytesToNat(<<be[1] - 128>> \o SubSeq(be, 2, Len(be))) - HalfRange(fc) - 1
    ELSE BytesToNat(be)

\* the big-endian bytes the format writes for the number v in its range
ToBytes(fc, v) ==
    IF v >= 0 THEN NatToBytes(v, calcsize(fc))
    ELSE LET low == NatToBytes(v + HalfRange(fc) + 1, calcsize(fc))
         IN  <<low[1] + 128>> \o SubSeq(low, 2, Len(low))

\* data[a:b] of Python, for 0 <= a: clipped to the length of data
Slice(data, a, b) ==
    LET hi == IF b > Len(data) THEN Len(data) ELSE b
    IN  IF a >= hi THEN <<>> ELSE SubSeq(data, a + 1, hi)

\* unpack_from reading little endian whatever the byte order e is: a
\* faulty variant, under which the round trip of C8 breaks
unpack_from_little(e, fc, data, offset) ==
    IF offset + calcsize(fc) > Len(data) THEN Err
    ELSE LET raw == Slice(data, offset, offset + calcsize(fc))
         IN  IntV(FromBytes(fc, Reverse(raw)))

\* struct.unpack_from(e + fc, data, offset)[0]; Err is struct.error
unpack_from(e, fc, data, offset) ==
    IF offset + calcsize(fc) > Len(data) THEN Err
    ELSE LET raw == Slice(data, offset, offset + calcsize(fc))
         IN  IntV(FromBytes(fc, IF e = "<" THEN Reverse(raw) ELSE raw))

\* the bytes data with data[offset : offset + Len(bs)] overwritten by bs
Overwrite(data, offset, bs) ==
    [i \in 1..Len(data) |->
        IF i > offset /\ i <= offset + Len(bs) THEN bs[i - offset] ELSE data[i]]

\* struct.pack_into(e + fc, data, offset, value): the new data; Err is
\* struct.error (value not an integer, out of range, or buffer too small)
pack_into(e, fc, data, offset, value) ==
    IF ~IsIntLike(value) THEN Err
    ELSE IF ~InPackRange(fc, AsInt(value)) THEN Err
    ELSE IF offset + calcsize(fc) > Len(data) THEN Err
    ELSE LET be == ToBytes(fc, AsInt(value))
         IN  BytesV(Overwrite(data, offset, IF e = "<" THEN Reverse(be) ELSE be))

-----------------------------------------------------------------------------
(* nsmbpy/level.py: the StructFieldEnum subclasses, each its name and its  *)
(* members in definition order.  A member's value is a VariesPerGame of    *)
(* raw integers.                                                           *)

Varies(a) == VariesPerGame(a)

\* Varies(nsmb=a) / Varies(nsmbw=b) / Varies(nsmb=a, nsmbw=b)
VNsmb(a) == Varies([NoArgs EXCEPT !.nsmb = IntV(a)])
VNsmbw(b) == Varies([NoArgs EXCEPT !.nsmbw = IntV(b)])
VBoth(a, b) == Varies([NoArgs EXCEPT !.nsmb = IntV(a), !.nsmbw = IntV(b)])
VLikeU(c) == Varies([NoArgs EXCEPT !.like_nsmbu = IntV(c)])

Member(n, v) == [name |-> n, value |-> v]

BackgroundScrollRate ==
    [name |-> "BackgroundScrollRate", members |-> <<
       Member("RATE_0_0", VNsmbw(0)),
       Member("RATE_0_0_ALT", VNsmbw(9)),
       Member("RATE_0_0625", VNsmb(6)),
       Member("RATE_0_09375", VNsmb(7)),
       Member("RATE_0_125", VBoth(3, 1)),
       Member("RATE_0_203125", VBoth(8, 1)),
       Member("RATE_0_25", VBoth(2, 2)),
       Member("RATE_0_375", VNsmbw(3)),
       Member("RATE_0_5", VBoth(1, 4)),
       Member("RATE_0_625", VNsmbw(5)),
       Member("RATE_0_75", VBoth(5, 6)),
       Member("RATE_0_875", VNsmbw(7)),
       Member("RATE_1_0", VBoth(0, 8)),
       Member("RATE_1_0_ALT_1", VNsmb(9)),
       Member("RATE_1_0_ALT_2", VNsmb(10)),
       Member("RATE_1_0_ALT_3", VNsmb(11)),
       Member("RATE_1_0_ALT_4", VNsmb(12)),
       Member("RATE_1_2", VBoth(4, 10)),
       Member("RATE_1_5", VNsmbw(11)),
       Member("RATE_2_0", VBoth(13, 12)),
       Member("RATE_4_0", VBoth(14, 13)),
       Member("RATE_8_0", VNsmb(15)) >>]

BackgroundZoom ==
    [name |-> "BackgroundZoom", members |-> <<
       Member("ZOOM_100_0", VNsmbw(0)),
       Member("ZOOM_125_0", VNsmbw(1)),
       Member("ZOOM_150_0", VNsmbw(2)),
       Member("ZOOM_200_0", VNsmbw(3)) >>]

Transition ==
    [name |-> "Transition", members |-> <<
       Member("DEFAULT", Varies([NoArgs EXCEPT !.default = IntV(0)])),
       Member("FORCE_FADE", VLikeU(1)),
       Member("FORCE_MARIO_HEAD", VLikeU(2)),
       Member("FORCE_CIRCLE_TOWARDS_CENTER", VLikeU(3)),
       Member("FORCE_BOWSER_HEAD", VLikeU(4)),
       Member("FORCE_CIRCLE_TOWARDS_ENTRANCE_1", VLikeU(5)),
       Member("FORCE_WAVES_DOWN",
              Varies([NoArgs EXCEPT !.nsmb = IntV(1), !.like_nsmbu = IntV(6)])),
       Member("FORCE_WAVES_DOWN_UP", VLikeU(7)),
       Member("FORCE_WAVES_UP_DOWN", VLikeU(8)),
       Member("FORCE_MUSHROOM", VLikeU(9)),
       Member("FORCE_CIRCLE_TOWARDS_ENTRANCE_2", VLikeU(10)),
       Member("FORCE_NONE", VLikeU(11)) >>]

MegaMarioGroundpoundBehavior ==
    [name |-> "MegaMarioGroundpoundBehavior", members |-> <<
       Member("SPAWN_GOOMBAS_AND_COINS", VNsmb(0)),
       Member("SPAWN_COINS", VNsmb(1)),
       Member("SPAWN_NOTHING", VNsmb(2)) >>]

EnumClasses ==
    {BackgroundScrollRate, BackgroundZoom, Transition,
     MegaMarioGroundpoundBehavior}

\* the i-th member of an enum class, as a value
EnumMember(ec, i) == EnumV(ec.name, ec.members[i].name, ec.members[i].value)

SetMin(S) == CHOOSE x \in S : \A y \in S : x <= y

\* StructFieldEnum.load: the first member whose value for the game equals
\* the raw value; Err is the ValueError raised when there is none
StructFieldEnum_load(ec, g, value) ==
    LET hits == {i \in 1..Len(ec.members) :
                    /\ VariesGet(ec.members[i].value, g) # None
                    /\ IsIntLike(value)
                    /\ AsInt(VariesGet(ec.members[i].value, g)) = AsInt(value)}
    IN  IF hits = {} THEN Err ELSE EnumMember(ec, SetMin(hits))

\* a save that falls back to 0 for a member without a value for the game:
\* a faulty variant, under which C15 breaks
StructFieldEnum_save_zero(member, g) ==
    IF VariesGet(member.value, g) = None THEN IntV(0)
    ELSE VariesGet(member.value, g)

\* StructFieldEnum.save: the raw value of the member for the game; Err is
\* the exception raised when the member has none
StructFieldEnum_save(member, g) ==
    IF VariesGet(member.value, g) = None THEN Err
    ELSE VariesGet(member.value, g)

-----------------------------------------------------------------------------
(* nsmbpy/perGameStructs.py: ConcreteBytestring and ConcreteNumericField.  *)
(* A field format is a record; the fluent calls append a transformation.   *)

ConcreteBytestring(offset, length) ==
    [kind |-> "bytes", offset |-> offset, length |-> length]

\* ConcreteNumericField.__init__ with endianness left at None
NumericField(fc, offset) ==
    [kind |-> "num", format_char |-> fc, offset |-> offset,
     endianness |-> "None", transformations |-> <<>>]

U8(offset) == NumericField("B", offset)
S8(offset) == NumericField("b", offset)
U16(offset) == NumericField("H", offset)
S16(offset) == NumericField("h", offset)
U32(offset) == NumericField("I", offset)
S32(offset) == NumericField("i", offset)

AddTransformation(f, t) ==
    [f EXCEPT !.transformations = Append(@, t)]

mask(f, bitmask) == AddTransformation(f, [op |-> "mask", bitmask |-> bitmask])
lshift(f, amount) == AddTransformation(f, [op |-> "lshift", amount |-> amount])
rshift(f, amount) == AddTransformation(f, [op |-> "rshift", amount |-> amount])
enum(f, enum_class) == AddTransformation(f, [op |-> "enum", enum_class |-> enum_class])
bool(f) == AddTransformation(f, [op |-> "bool"])

\* len(bin(mask)) - len(bin(mask).rstrip('0')), for mask > 0
RECURSIVE num_trailing_zeros(_)
num_trailing_zeros(m) ==
    IF m % 2 = 1 THEN 0 ELSE 1 + num_trailing_zeros(m \div 2)

\* bin(mask).count('1'), for mask >= 0
RECURSIVE CountOnes(_)
CountOnes(m) == IF m = 0 THEN 0 ELSE (m % 2) + CountOnes(m \div 2)

\* a mask_bool that forgets the mask(1): a faulty variant, under which C20
\* breaks
mask_bool_nomask(f, m) ==
    IF CountOnes(m) # 1 THEN Err
    ELSE bool(rshift(f, num_trailing_zeros(m)))

\* ConcreteNumericField.mask_bool and IntegralNumericField.mask_bool; Err is
\* the AssertionError for a mask that is not 1 << x
mask_bool(f, m) ==
    IF CountOnes(m) # 1 THEN Err
    ELSE bool(mask(rshift(f, num_trailing_zeros(m)), 1))

\* ConcreteNumericField.overall_bitmask, set by __init_subclass__
overall_bitmask(f) == Pow2(8 * calcsize(f.format_char)) - 1

\* Transformation.transform of each kind; Err is a raised exception
transform(t, g, value) ==
    IF IsErr(value) THEN Err
    ELSE CASE t.op = "mask" ->
                IF IsIntLike(value) THEN IntV(BitAnd(AsInt(value), t.bitmask)) ELSE Err
           [] t.op = "lshift" ->
                IF IsIntLike(value) THEN IntV(Shl(AsInt(value), t.amount)) ELSE Err
           [] t.op = "rshift" ->
                IF IsIntLike(value) THEN IntV(Shr(AsInt(value), t.amount)) ELSE Err
           [] t.op = "enum" -> StructFieldEnum_load(t.enum_class, g, value)
           [] t.op = "bool" -> BoolV(Truthy(value))

\* an untransform whose left shift is undone by nothing: a faulty variant,
\* under which C18 breaks
untransform_noshift(t, g, value) ==
    IF IsErr(value) THEN Err
    ELSE CASE t.op = "mask" ->
                IF IsIntLike(value) THEN IntV(BitAnd(AsInt(value), t.bitmask)) ELSE Err
           [] t.op = "lshift" ->
                IF IsIntLike(value) THEN IntV(AsInt(value)) ELSE Err
           [] t.op = "rshift" ->
                IF IsIntLike(value) THEN IntV(Shl(AsInt(value), t.amount)) ELSE Err
           [] t.op = "enum" ->
                IF IsEnum(value) THEN StructFieldEnum_save(value, g) ELSE Err
           [] t.op = "bool" -> IntV(IF Truthy(value) THEN 1 ELSE 0)

\* Transformation.untransform of each kind; Err is a raised exception
untransform(t, g, value) ==
    IF IsErr(value) THEN Err
    ELSE CASE t.op = "mask" ->
                IF IsIntLike(value) THEN IntV(BitAnd(AsInt(value), t.bitmask)) ELSE Err
           [] t.op = "lshift" ->
                IF IsIntLike(value) THEN IntV(Shr(AsInt(value), t.amount)) ELSE Err
           [] t.op = "rshift" ->
                IF IsIntLike(value) THEN IntV(Shl(AsInt(value), t.amount)) ELSE Err
           [] t.op = "enum" ->
                IF IsEnum(value) THEN StructFieldEnum_save(value, g) ELSE Err
           [] t.op = "bool" -> IntV(IF Truthy(value) THEN 1 ELSE 0)

\* Transformation.unbitmask of each kind, on an integer bitmask
unbitmask(t, g, bitmask) ==
    CASE t.op = "mask" -> BitAnd(bitmask, t.bitmask)
      [] t.op = "lshift" -> Shr(bitmask, t.amount)
      [] t.op = "rshift" -> Shl(bitmask, t.amount)
      [] t.op = "enum" -> bitmask
      [] t.op = "bool" -> BitAnd(bitmask, 1)

\* ConcreteNumericField.format_string, as the pair endianness / format_char
FieldEndianness(f, g) ==
    IF f.endianness = "None" THEN endianness(g) ELSE f.endianness

\* the loop of get_bitmask over transformations[n], ..., transformations[1]
RECURSIVE UnbitmaskAll(_, _, _, _)
UnbitmaskAll(ts, n, g, bitmask) ==
    IF n = 0 THEN bitmask
    ELSE UnbitmaskAll(ts, n - 1, g, unbitmask(ts[n], g, bitmask))

\* ConcreteNumericField.get_bitmask
get_bitmask(f, g) ==
    LET bitmask == UnbitmaskAll(f.transformations, Len(f.transformations), g, -1)
    IN  IF bitmask = -1 THEN -1 ELSE BitAnd(bitmask, overall_bitmask(f))

\* the loop of load over transformations[n], ..., transformations[Len]
RECURSIVE TransformAll(_, _, _, _)
TransformAll(ts, n, g, value) ==
    IF n > Len(ts) THEN value
    ELSE TransformAll(ts, n + 1, g, transform(ts[n], g, value))

\* the loop of save over transformations[n], ..., transformations[1]
RECURSIVE UntransformAll(_, _, _, _)
UntransformAll(ts, n, g, value) ==
    IF n = 0 THEN value
    ELSE UntransformAll(ts, n - 1, g, untransform(ts[n], g, value))

\* ConcreteNumericField.load: the field's value in data; Err is an exception
ConcreteNumericField_load(f, g, data) ==
    TransformAll(f.transformations, 1, g,
        unpack_from(FieldEndianness(f, g), f.format_char, data, f.offset))

\* a merge that keeps nothing of origValue: a faulty variant, under which
\* the mask preservation of C2 breaks
MergeValue_overwrite(bitmask, origValue, value) == value

\* the value save packs: (origValue & ~bitmask) | value under a bitmask
MergeValue(bitmask, origValue, value) ==
    BitOr(BitAnd(origValue, BitNot(bitmask)), value)

\* ConcreteNumericField.save: the new data as BytesV; Err is an exception
ConcreteNumericField_save(f, g, data, value) ==
    LET e == FieldEndianness(f, g)
        raw == UntransformAll(f.transformations, Len(f.transformations), g, value)
        bitmask == get_bitmask(f, g)
        origValue == unpack_from(e, f.format_char, data, f.offset)
    IN  IF IsErr(raw) THEN Err
        ELSE IF bitmask = -1 THEN pack_into(e, f.format_char, data, f.offset, raw)
        ELSE IF IsErr(origValue) \/ ~IsIntLike(raw) THEN Err
        ELSE pack_into(e, f.format_char, data, f.offset,
                       IntV(MergeValue(bitmask, origValue.i, AsInt(raw))))

\* ConcreteBytestring.load: data[offset : offset + length]
ConcreteBytestring_load(f, g, data) ==
    BytesV(Slice(data, f.offset, f.offset + f.length))

\* ConcreteBytestring.save: data[offset : offset + length] = value, which
\* replaces the slice by the value whatever its length; Err is the TypeError
\* of assigning something that is not bytes
ConcreteBytestring_save(f, g, data, value) ==
    IF ~IsBytes(value) THEN Err
    ELSE LET lo == IF f.offset > Len(data) THEN Len(data) ELSE f.offset
         IN  BytesV(Slice(data, 0, lo) \o value.s
                    \o Slice(data, f.offset + f.length, Len(data)))

\* format.load / format.save of either kind of ConcreteStructField
Field_load(f, g, data) ==
    IF f.kind = "num" THEN ConcreteNumericField_load(f, g, data)
    ELSE ConcreteBytestring_load(f, g, data)

Field_save(f, g, data, value) ==
    IF f.kind = "num" THEN ConcreteNumericField_save(f, g, data, value)
    ELSE ConcreteBytestring_save(f, g, data, value)

-----------------------------------------------------------------------------
(* nsmbpy2/base_struct.py: NumericField and its wrappers.  A field is the  *)
(* same record as above: the LE_/BE_ class gives endianness, format_char   *)
(* and offset, and transformations[1..n] are the wrappers around it, the   *)
(* outermost last.                                                         *)

\* the LE_* ("<") or BE_* (">") class of a numeric field
WithEndianness(f, e) == [f EXCEPT !.endianness = e]

\* NumericField.get
NumericField_get(f, data) ==
    unpack_from(f.endianness, f.format_char, data, f.offset)

\* the value NumericField.set packs under a bitmask:
\* (value & bitmask) | (orig_value & ~bitmask)
MergeValue2(bitmask, orig_value, value) ==
    BitOr(BitAnd(value, bitmask), BitAnd(orig_value, BitNot(bitmask)))

\* what a set leaves behind: the exception it raised ("" when it returned)
\* and the bytes of the bytearray it was handed, as they are afterwards
SetResult(exc, data) == [exc |-> exc, data |-> data]

\* the bytearray after struct.pack_into(e + fc, data, offset, value) raised
\* struct.error: untouched when the buffer is too small for the offset;
\* otherwise the bytes of the field are zero, since pack_into clears its
\* target before it converts the value
pack_into_failed(fc, data, offset) ==
    IF offset + calcsize(fc) > Len(data) THEN data
    ELSE Overwrite(data, offset, [i \in 1..calcsize(fc) |-> 0])

\* the try / except around struct.pack_into in NumericField.set
PackOrValueError(f, data, value) ==
    IF pack_into(f.endianness, f.format_char, data, f.offset, value) = Err
    THEN SetResult("ValueError", pack_into_failed(f.format_char, data, f.offset))
    ELSE SetResult("", pack_into(f.endianness, f.format_char, data, f.offset, value).s)

\* NumericField.set, with the exception and the bytearray it leaves
NumericField_set_result(f, data, value, bitmask) ==
    IF bitmask = -1 THEN PackOrValueError(f, data, value)
    ELSE IF IsErr(NumericField_get(f, data)) THEN SetResult("struct.error", data)
    ELSE IF ~IsIntLike(value) THEN SetResult("TypeError", data)
    ELSE PackOrValueError(f, data,
            IntV(MergeValue2(bitmask, NumericField_get(f, data).i, AsInt(value))))

\* BytesV of a result that returned, Err of one that raised
ResultBytes(r) == IF r.exc = "" THEN BytesV(r.data) ELSE Err

\* NumericField.set: the new data as BytesV; Err is an exception
NumericField_set(f, data, value, bitmask) ==
    ResultBytes(NumericField_set_result(f, data, value, bitmask))

\* a member of an IntEnum: an int with a name
IntEnumV(c, m, i) == [t |-> "intenum", c |-> c, m |-> m, i |-> i]

\* enum_type(value): the first member with that value; Err is ValueError
IntEnum_call(enum_type, value) ==
    IF \E i \in 1..Len(enum_type.members) : enum_type.members[i].value = value
    THEN LET i == SetMin({j \in 1..Len(enum_type.members) :
                            enum_type.members[j].value = value})
         IN  IntEnumV(enum_type.name, enum_type.members[i].name, value)
    ELSE Err

\* IntegralNumericField.enum: the NumericFieldEnum wrapper
NumericFieldEnum(f, enum_type) ==
    AddTransformation(f, [op |-> "intenum", enum_type |-> enum_type])

\* NumericFieldEnum.get on the value of its parent: the member, or the raw
\* value when enum_type(value) raises ValueError
NumericFieldEnum_get(enum_type, value) ==
    IF IntEnum_call(enum_type, value.i) = Err THEN value
    ELSE IntEnum_call(enum_type, value.i)

\* get of the field wrapped n times: NumericFieldMask.get,
\* NumericFieldLshift.get, NumericFieldRshift.get, NumericFieldBool.get,
\* NumericFieldEnum.get
RECURSIVE Wrapped_get(_, _, _)
Wrapped_get(f, n, data) ==
    IF n = 0 THEN NumericField_get(f, data)
    ELSE IF IsErr(Wrapped_get(f, n - 1, data)) THEN Err
    ELSE CASE f.transformations[n].op = "mask" ->
                IntV(BitAnd(Wrapped_get(f, n - 1, data).i, f.transformations[n].bitmask))
           [] f.transformations[n].op = "lshift" ->
                IntV(Shl(Wrapped_get(f, n - 1, data).i, f.transformations[n].amount))
           [] f.transformations[n].op = "rshift" ->
                IntV(Shr(Wrapped_get(f, n - 1, data).i, f.transformations[n].amount))
           [] f.transformations[n].op = "bool" ->
                BoolV(Truthy(Wrapped_get(f, n - 1, data)))
           [] f.transformations[n].op = "intenum" ->
                NumericFieldEnum_get(f.transformations[n].enum_type,
                                     Wrapped_get(f, n - 1, data))

\* the value and the bitmask that the set of the field wrapped n times
\* hands to NumericField.set: NumericFieldMask.set, NumericFieldLshift.set,
\* NumericFieldRshift.set, NumericFieldBool.set, NumericFieldEnum.set; exc
\* is the exception a wrapper raises on the way
RECURSIVE Wrapped_args(_, _, _, _)
Wrapped_args(f, n, value, bitmask) ==
    IF n = 0 THEN [exc |-> "", value |-> value, bitmask |-> bitmask]
    ELSE CASE f.transformations[n].op = "mask" ->
                IF ~IsIntLike(value) THEN [exc |-> "TypeError"]
                ELSE Wrapped_args(f, n - 1,
                        IntV(BitAnd(AsInt(value), f.transformations[n].bitmask)),
                        BitAnd(bitmask, f.transformations[n].bitmask))
           [] f.transformations[n].op = "lshift" ->
                IF ~IsIntLike(value) THEN [exc |-> "TypeError"]
                ELSE Wrapped_args(f, n - 1,
                        IntV(Shr(AsInt(value), f.transformations[n].amount)),
                        Shr(bitmask, f.transformations[n].amount))
           [] f.transformations[n].op = "rshift" ->
                IF ~IsIntLike(value) THEN [exc |-> "TypeError"]
                ELSE Wrapped_args(f, n - 1,
                        IntV(Shl(AsInt(value), f.transformations[n].amount)),
                        Shl(bitmask, f.transformations[n].amount))
           [] f.transformations[n].op = "bool" ->
                Wrapped_args(f, n - 1,
                        IntV(IF Truthy(value) THEN 1 ELSE 0), bitmask)
           [] f.transformations[n].op = "intenum" ->
                IF IsIntLike(value)
                THEN Wrapped_args(f, n - 1, IntV(AsInt(value)), bitmask)
                ELSE [exc |-> "AttributeError"]

\* NumericField.set with the arguments the wrappers computed
SetWithArgs(f, data, a) ==
    IF a.exc # "" THEN SetResult(a.exc, data)
    ELSE NumericField_set_result(f, data, a.value, a.bitmask)

\* set of the field wrapped n times: the new data as BytesV, or Err
Wrapped_set(f, n, data, value, bitmask) ==
    ResultBytes(SetWithArgs(f, data, Wrapped_args(f, n, value, bitmask)))

\* field.get(data) and field.set(data, value) of a wrapped field
StructField_get(f, data) == Wrapped_get(f, Len(f.transformations), data)
StructField_set(f, data, value) ==
    Wrapped_set(f, Len(f.transformations), data, value, -1)

-----------------------------------------------------------------------------
(* nsmbpy2/base_struct.py: BytestringField, StringField and BaseStruct.    *)
(* A struct class is its name, its raw_data_length and its fields by name; *)
(* an instance is its raw_data and the names held by its __dict__.         *)

BytestringField(offset, length) ==
    [kind |-> "bytes", offset |-> offset, length |-> length]

\* BytestringField.decode: the StringField around a BytestringField
decode(parent, encoding) ==
    [kind |-> "str", parent |-> parent, encoding |-> encoding]

\* BytestringField.get
BytestringField_get(f, data) ==
    BytesV(Slice(data, f.offset, f.offset + f.length))

\* BytestringField.set: data[offset : offset + length] = value
BytestringField_set_result(f, data, value) ==
    IF ~IsBytes(value) THEN SetResult("TypeError", data)
    ELSE SetResult("",
            Slice(data, 0, f.offset) \o value.s
            \o Slice(data, f.offset + f.length, Len(data)))

\* bytes.rstrip(b'\0')
RECURSIVE rstrip0(_)
rstrip0(bs) ==
    IF Len(bs) > 0 /\ bs[Len(bs)] = 0 THEN rstrip0(SubSeq(bs, 1, Len(bs) - 1))
    ELSE bs

\* _common.decode_null_terminated_string_from for the ascii encoding: the
\* characters before the first null; Err is the UnicodeDecodeError raised
\* at a byte above 127 met before it
RECURSIVE decode_null_terminated_string_from(_, _)
decode_null_terminated_string_from(bs, k) ==
    IF k > Len(bs) \/ bs[k] = 0 THEN StrV(SubSeq(bs, 1, k - 1))
    ELSE IF bs[k] > 127 THEN Err
    ELSE decode_null_terminated_string_from(bs, k + 1)

\* StringField.get
StringField_get(f, data) ==
    IF decode_null_terminated_string_from(BytestringField_get(f.parent, data).s, 1) = Err
    THEN BytesV(rstrip0(BytestringField_get(f.parent, data).s))
    ELSE decode_null_terminated_string_from(BytestringField_get(f.parent, data).s, 1)

\* value_bytes.ljust(n, b'\0')
ljust0(bs, n) == bs \o [i \in 1..(IF n > Len(bs) THEN n - Len(bs) ELSE 0) |-> 0]

\* StringField.set: a str is encoded with a null appended, padded and
\* handed to the parent when it fits; a bytes value never binds
\* value_bytes, so its use raises UnboundLocalError
StringField_set_result(f, data, value) ==
    IF value.t = "str"
    THEN IF Len(value.s) + 1 > f.parent.length THEN SetResult("ValueError", data)
         ELSE BytestringField_set_result(f.parent, data,
                    BytesV(ljust0(value.s \o <<0>>, f.parent.length)))
    ELSE IF IsBytes(value) THEN SetResult("UnboundLocalError", data)
    ELSE SetResult("TypeError", data)

\* fields[key].get(raw_data) of any kind of field; Err is an exception
AnyField_get(f, data) ==
    CASE f.kind = "num" -> StructField_get(f, data)
      [] f.kind = "bytes" -> BytestringField_get(f, data)
      [] f.kind = "str" -> StringField_get(f, data)

\* fields[key].set(raw_data, value) of any kind of field
AnyField_set_result(f, data, value) ==
    CASE f.kind = "num" ->
            SetWithArgs(f, data, Wrapped_args(f, Len(f.transformations), value, -1))
      [] f.kind = "bytes" -> BytestringField_set_result(f, data, value)
      [] f.kind = "str" -> StringField_set_result(f, data, value)

\* create_basestruct_subclass
create_basestruct_subclass(name, raw_data_length, fs) ==
    [name |-> name, raw_data_length |-> raw_data_length, fields |-> fs]

\* the names that the class BaseStruct itself defines
ClassAttributes ==
    {"raw_data_length", "fields", "get", "set", "_assert_field_exists"}

\* the outcome of a call on an instance: the exception raised ("" when it
\* returned), the value returned and the instance afterwards
CallResult(exc, value, self) == [exc |-> exc, value |-> value, self |-> self]

\* BaseStruct.__setattr__ for the key raw_data: the value is made a
\* bytearray and must have raw_data_length bytes
SetRawData(c, self, value) ==
    IF ~(IsBytes(value) \/ IsInt(value)) THEN CallResult("TypeError", None, self)
    ELSE IF IsInt(value) /\ value.i < 0 THEN CallResult("ValueError", None, self)
    ELSE IF (IF IsInt(value) THEN value.i ELSE Len(value.s)) # c.raw_data_length
    THEN CallResult("ValueError", None, self)
    ELSE CallResult("", None,
            [raw_data |-> IF IsInt(value) THEN [i \in 1..value.i |-> 0] ELSE value.s,
             dict |-> self.dict \cup {"raw_data"}])

\* BaseStruct.__init__(data): raw_data is raw_data_length zero bytes, or
\* a copy of data, assigned through __setattr__
BaseStruct_init(c, data) ==
    SetRawData(c, [raw_data |-> <<>>, dict |-> {}],
               IF data = None THEN IntV(c.raw_data_length) ELSE data)

\* BaseStruct.get: _assert_field_exists, then the field's get
BaseStruct_get(c, self, key) ==
    IF key \notin DOMAIN c.fields THEN CallResult("ValueError", None, self)
    ELSE IF AnyField_get(c.fields[key], self.raw_data) = Err
    THEN CallResult("struct.error", None, self)
    ELSE CallResult("", AnyField_get(c.fields[key], self.raw_data), self)

\* the instance after fields[key].set(self.raw_data, value) left result r
AfterSet(self, r) ==
    CallResult(r.exc, None, [self EXCEPT !.raw_data = r.data])

\* BaseStruct.set: _assert_field_exists, then the field's set
BaseStruct_set(c, self, key, value) ==
    IF key \notin DOMAIN c.fields THEN CallResult("ValueError", None, self)
    ELSE AfterSet(self, AnyField_set_result(c.fields[key], self.raw_data, value))

\* a slice start:stop, as the key of an item assignment
SliceKey(start, stop) == [t |-> "slice", start |-> start, stop |-> stop]

\* BaseStruct.__setitem__: raw_data[key] = value on the bytearray, for an
\* index (an int in range(0, 256) is stored) or a slice (the bytes replace
\* the slice, whatever their number)
BaseStruct_setitem(self, key, value) ==
    IF key.t = "slice"
    THEN IF ~IsBytes(value) THEN CallResult("TypeError", None, self)
         ELSE CallResult("", None,
                [self EXCEPT !.raw_data =
                    Slice(@, 0, key.start) \o value.s \o Slice(@, key.stop, Len(@))])
    ELSE IF ~IsIntLike(value) THEN CallResult("TypeError", None, self)
    ELSE IF AsInt(value) \notin 0..255 THEN CallResult("ValueError", None, self)
    ELSE CallResult("", None, [self EXCEPT !.raw_data[key.i + 1] = AsInt(value)])

\* a ValueError that leaves __getattr__ or __setattr__ as AttributeError
AsAttributeError(r) ==
    IF r.exc = "ValueError" THEN [r EXCEPT !.exc = "AttributeError"] ELSE r

\* the read instance.key: the instance's __dict__ and the class come
\* first, BaseStruct.__getattr__ is the fallback
BaseStruct_getattr(c, self, key) ==
    IF key = "raw_data" /\ key \in self.dict
    THEN CallResult("", BytesV(self.raw_data), self)
    ELSE IF key \in ClassAttributes
    THEN CallResult("", [t |-> "classattr", name |-> key], self)
    ELSE AsAttributeError(BaseStruct_get(c, self, key))

\* __setattr__ storing an unknown key as a plain attribute instead of
\* raising: a faulty variant, under which C16 breaks
BaseStruct_setattr_plain(c, self, key, value) ==
    IF key = "raw_data" THEN SetRawData(c, self, value)
    ELSE IF key \notin DOMAIN c.fields
    THEN CallResult("", None, [self EXCEPT !.dict = @ \cup {key}])
    ELSE AsAttributeError(BaseStruct_set(c, self, key, value))

\* the assignment instance.key = value: BaseStruct.__setattr__ (no
\* attribute of BaseStruct has a __set__)
BaseStruct_setattr(c, self, key, value) ==
    IF key = "raw_data" THEN SetRawData(c, self, value)
    ELSE AsAttributeError(BaseStruct_set(c, self, key, value))

-----------------------------------------------------------------------------
(* nsmbpy/level.py: the PerGameStruct subclasses of the model.  A class is *)
(* its name, length, block_terminator and its annotated fields in order of *)
(* declaration; a field is its name, its formats (PerGameStructField wraps *)
(* a bare format into VariesPerGame(format)) and its class-level default   *)
(* (None when the class assigns none).                                     *)

\* PerGameStructField.__init__
PerGameStructField(formats) ==
    IF "per_game" \in DOMAIN formats THEN formats
    ELSE VariesPerGame([NoArgs EXCEPT !.default = formats])

FieldDecl(n, formats, d) ==
    [name |-> n, formats |-> PerGameStructField(formats), default |-> d]

\* Varies(nsmb=a, nsmbw=b, nsmb2=c, like_nsmbu=d); None leaves one out
Varies4(a, b, c, d) ==
    Varies([NoArgs EXCEPT !.nsmb = a, !.nsmbw = b, !.nsmb2 = c, !.like_nsmbu = d])

LevelObject ==
    [name |-> "LevelObject",
     length |-> Varies4(IntV(10), IntV(10), IntV(16), IntV(16)),
     block_terminator |-> <<255, 255>>,
     fields |-> <<
        FieldDecl("tileset_id", rshift(U16(0), 12), None),
        FieldDecl("type", mask(U16(0), 4095), None),
        FieldDecl("x", S16(2), None),
        FieldDecl("y", S16(4), None),
        FieldDecl("width", S16(6), None),
        FieldDecl("height", S16(8), None),
        FieldDecl("contents", Varies4(None, None, None, U8(10)), None) >>]

LevelSprite ==
    [name |-> "LevelSprite",
     length |-> Varies4(IntV(12), IntV(16), IntV(24), IntV(24)),
     block_terminator |-> <<255, 255, 255, 255>>,
     fields |-> <<
        FieldDecl("type", U16(0), None),
        FieldDecl("x", U16(2), None),
        FieldDecl("y", U16(4), None),
        FieldDecl("data_1",
            Varies4(ConcreteBytestring(6, 6), ConcreteBytestring(6, 6),
                    ConcreteBytestring(6, 10), ConcreteBytestring(6, 10)), None),
        FieldDecl("zone_id", Varies4(None, U8(12), U8(16), U8(16)), None),
        FieldDecl("layer", Varies4(None, U8(13), U8(17), U8(17)), None),
        FieldDecl("data_2",
            Varies4(None, None, ConcreteBytestring(18, 2), ConcreteBytestring(18, 2)),
            None),
        FieldDecl("initial_state", Varies4(None, None, None, U8(20)), None) >>]

LevelLocation ==
    [name |-> "LevelLocation",
     length |-> IntV(12),
     block_terminator |-> <<>>,
     fields |-> <<
        FieldDecl("x", U16(0), None),
        FieldDecl("y", U16(2), None),
        FieldDecl("width", U16(4), IntV(128)),
        FieldDecl("height", U16(6), IntV(128)),
        FieldDecl("id", U8(8), IntV(1)) >>]

LevelBackgroundLayer ==
    [name |-> "LevelBackgroundLayer",
     length |-> Varies4(IntV(20), IntV(24), None, None),
     block_terminator |-> <<>>,
     fields |-> <<
        FieldDecl("id", Varies4(U16(0), U16(0), None, None), None),
        FieldDecl("tilemap_file_id", Varies4(S16(2), None, None, None), None),
        FieldDecl("palette_file_id", Varies4(S16(4), None, None, None), None),
        FieldDecl("image_file_id", Varies4(S16(6), None, None, None), None),
        FieldDecl("nsmb_unk_08", Varies4(S16(8), None, None, None), None),
        FieldDecl("nsmb_unk_0E", Varies4(S16(14), None, None, None), None),
        FieldDecl("x", Varies4(None, S16(6), None, None), None),
        FieldDecl("y", Varies4(None, S16(8), None, None), None),
        FieldDecl("x_scroll_rate",
            Varies4(enum(mask(U8(10), 15), BackgroundScrollRate),
                    enum(S16(2), BackgroundScrollRate), None, None), None),
        FieldDecl("y_scroll_rate",
            Varies4(enum(mask(U8(12), 15), BackgroundScrollRate),
                    enum(S16(4), BackgroundScrollRate), None, None), None),
        FieldDecl("move_downwards",
            Varies4(mask_bool(U8(12), 128), None, None, None), None),
        FieldDecl("file_id_1", Varies4(None, U16(10), None, None), None),
        FieldDecl("file_id_2", Varies4(None, U16(12), None, None), None),
        FieldDecl("file_id_3", Varies4(None, U16(14), None, None), None),
        FieldDecl("zoom",
            Varies4(None, enum(U8(19), BackgroundZoom), None, None), None) >>]

Classes == {LevelObject, LevelSprite, LevelLocation, LevelBackgroundLayer}

\* id and vertical_scroll_limit are four bytes each, two bytes apart
LevelZoneBounds ==
    [name |-> "LevelZoneBounds",
     length |-> Varies4(IntV(24), IntV(24), IntV(28), IntV(28)),
     block_terminator |-> <<>>,
     fields |-> <<
        FieldDecl("upper", S32(0), None),
        FieldDecl("lower", S32(4), None),
        FieldDecl("upper_2", S32(8), None),
        FieldDecl("lower_2", S32(12), None),
        FieldDecl("id", U32(16), None),
        FieldDecl("vertical_scroll_limit", U32(18), None) >>]

-----------------------------------------------------------------------------
(* nsmbpy/perGameStructs.py: PerGameStruct.  An instance is the function   *)
(* from the class's field names to the values of its attributes.           *)

\* PerGameStruct.fields: the names of the annotated fields, in order
fields(c) == [i \in 1..Len(c.fields) |-> c.fields[i].name]

FieldNames(c) == {c.fields[i].name : i \in 1..Len(c.fields)}

FieldIndex(c, n) ==
    CHOOSE i \in 1..Len(c.fields) : c.fields[i].name = n

\* PerGameStructField.get_format of the field named n
get_format(c, n, g) == VariesGet(c.fields[FieldIndex(c, n)].formats, g)

\* PerGameStruct.fields_and_formats: the indices of the fields that have a
\* format for the game, in declaration order
RECURSIVE FieldsWithFormat(_, _, _)
FieldsWithFormat(c, g, i) ==
    IF i > Len(c.fields) THEN <<>>
    ELSE IF VariesGet(c.fields[i].formats, g) # None
         THEN <<i>> \o FieldsWithFormat(c, g, i + 1)
         ELSE FieldsWithFormat(c, g, i + 1)

fields_and_formats(c, g) == FieldsWithFormat(c, g, 1)

\* PerGameStruct.get_length: IntV; Err is the ValueError for an unknown length
get_length(c, g) ==
    IF "per_game" \in DOMAIN c.length
    THEN LET value == VariesGet(c.length, g)
         IN  IF value = None THEN Err ELSE value
    ELSE c.length

\* PerGameStruct.get_block_terminator (no modelled class varies it per game)
get_block_terminator(c, g) == c.block_terminator

\* PerGameStruct.__init__(**kwargs): every field gets its keyword argument,
\* else its class-level default, else 0; Err is the ValueError for a
\* keyword that names no field
PerGameStruct_init(c, kwargs) ==
    IF ~(DOMAIN kwargs \subseteq FieldNames(c)) THEN Err
    ELSE [n \in FieldNames(c) |->
            IF n \in DOMAIN kwargs THEN kwargs[n]
            ELSE IF c.fields[FieldIndex(c, n)].default # None
                 THEN c.fields[FieldIndex(c, n)].default
                 ELSE IntV(0)]

\* the loop of load over the fields fs[k], fs[k + 1], ...
RECURSIVE LoadFields(_, _, _, _, _, _)
LoadFields(c, g, data, fs, k, self) ==
    IF k > Len(fs) THEN self
    ELSE LET decl == c.fields[fs[k]]
             value == Field_load(VariesGet(decl.formats, g), g, data)
         IN  IF IsErr(value) THEN Err
             ELSE LoadFields(c, g, data, fs, k + 1,
                             [self EXCEPT ![decl.name] = value])

\* PerGameStruct.load: a new instance with every field of the game read
\* from data; Err is an exception raised by a field's load
PerGameStruct_load(c, g, data) ==
    LoadFields(c, g, data, fields_and_formats(c, g), 1,
               PerGameStruct_init(c, EmptyDict))

\* the loop of save over the fields fs[k], fs[k + 1], ...; data is a
\* sequence of bytes, the result BytesV or Err
RECURSIVE SaveFields(_, _, _, _, _, _)
SaveFields(c, g, self, fs, k, data) ==
    IF k > Len(fs) THEN BytesV(data)
    ELSE LET decl == c.fields[fs[k]]
             res == Field_save(VariesGet(decl.formats, g), g, data, self[decl.name])
         IN  IF IsErr(res) THEN Err
             ELSE SaveFields(c, g, self, fs, k + 1, res.s)

Zeros(n) == [i \in 1..n |-> 0]

\* PerGameStruct.save: BytesV; Err is an exception
PerGameStruct_save(c, g, self) ==
    IF IsErr(get_length(c, g)) THEN Err
    ELSE SaveFields(c, g, self, fields_and_formats(c, g), 1,
                    Zeros(get_length(c, g).i))

-----------------------------------------------------------------------------
(* nsmbpy/_common.py and the block operations of PerGameStruct *)

\* _common.divide_block: the chunks data[i*item_size : i*item_size+item_size]
\* for i in range((len(data) + item_size - 1) // item_size)
divide_block(data, item_size) ==
    [k \in 1..((Len(data) + item_size - 1) \div item_size) |->
        Slice(data, (k - 1) * item_size, (k - 1) * item_size + item_size)]

\* bytes.endswith
endswith(data, suffix) ==
    /\ Len(suffix) <= Len(data)
    /\ SubSeq(data, Len(data) - Len(suffix) + 1, Len(data)) = suffix

\* data[:-n] for n > 0
DropLast(data, n) ==
    IF n >= Len(data) THEN <<>> ELSE SubSeq(data, 1, Len(data) - n)

\* StripTerminator removing the terminator's length twice: a faulty
\* variant, under which C10 breaks
StripTerminator_twice(data, terminator) ==
    IF Len(terminator) > 0 /\ ~endswith(data, terminator) THEN Err
    ELSE IF Len(terminator) > 0 THEN BytesV(DropLast(data, 2 * Len(terminator)))
    ELSE BytesV(data)

\* the data load_block divides: checked for the terminator and stripped of it
StripTerminator(data, terminator) ==
    IF Len(terminator) > 0 /\ ~endswith(data, terminator) THEN Err
    ELSE IF Len(terminator) > 0 THEN BytesV(DropLast(data, Len(terminator)))
    ELSE BytesV(data)

\* PerGameStruct.load_block: the list of loaded items; Err is an exception
PerGameStruct_load_block(c, g, data) ==
    LET stripped == StripTerminator(data, get_block_terminator(c, g))
        item_len == get_length(c, g)
    IN  IF IsErr(stripped) \/ IsErr(item_len) THEN Err
        ELSE LET chunks == divide_block(stripped.s, item_len.i)
                 loaded == [k \in 1..Len(chunks) |-> PerGameStruct_load(c, g, chunks[k])]
             IN  IF \E k \in 1..Len(chunks) : loaded[k] = Err THEN Err
                 ELSE ListV(loaded)

\* b''.join(chunks[k], ..., chunks[Len])
RECURSIVE Join(_, _)
Join(chunks, k) ==
    IF k > Len(chunks) THEN <<>> ELSE chunks[k] \o Join(chunks, k + 1)

\* PerGameStruct.save_block: BytesV; Err is an exception raised by a save
PerGameStruct_save_block(c, g, list) ==
    LET saved == [k \in 1..Len(list) |-> PerGameStruct_save(c, g, list[k])]
    IN  IF \E k \in 1..Len(list) : IsErr(saved[k]) THEN Err
        ELSE BytesV(Join([k \in 1..Len(list) |-> saved[k].s], 1)
                    \o get_block_terminator(c, g))

-----------------------------------------------------------------------------
(* The inputs of the scenarios *)

MaxCut == 1
MaxExtra == 1
MaxSets == 1
MaxItems == 2
MaxCopies == 2

FillBytes == {0, 255}
HotBytes == {129}

\* len bytes of fill, with the byte at index hot (if any) replaced by hv
Pattern(len, fill, hot, hv) == [i \in 1..len |-> IF i = hot THEN hv ELSE fill]

\* the struct length of the class for the game, 0 when it has none
LengthOrZero(c, g) == IF IsErr(get_length(c, g)) THEN 0 ELSE get_length(c, g).i

\* the buffers handed to load: of the exact length, filled or with one hot
\* byte, and filled buffers up to MaxCut bytes shorter and MaxExtra longer
LoadInputs(c, g) ==
    LET L == LengthOrZero(c, g)
    IN  {Pattern(L, f, 0, 0) : f \in FillBytes}
        \cup {Pattern(L, 0, p, hv) : p \in 1..L, hv \in HotBytes}
        \cup {Pattern(L + d, f, 0, 0) :
                d \in {x \in (-MaxCut)..MaxExtra : x # 0 /\ L + x >= 0},
                f \in FillBytes}

Sevens(n) == [i \in 1..n |-> 7]

\* the fields assigned in the scenarios and the values assigned to them:
\* legal and illegal ones (out of range, of the wrong length or type, an
\* enum member without a value for some games)
SetNames(c) ==
    CASE c.name = "LevelObject" -> {"tileset_id", "type"}
      [] c.name = "LevelSprite" -> {"zone_id", "data_1"}
      [] c.name = "LevelLocation" -> {"width", "id"}
      [] c.name = "LevelBackgroundLayer" -> {"y_scroll_rate", "move_downwards"}

SetValues(c) ==
    CASE c.name = "LevelObject" -> {IntV(9), IntV(4097)}
      [] c.name = "LevelSprite" ->
            {IntV(9), BytesV(Sevens(6)), BytesV(Sevens(10)), BytesV(<<>>)}
      [] c.name = "LevelLocation" -> {IntV(9), IntV(70000)}
      [] c.name = "LevelBackgroundLayer" ->
            {EnumMember(BackgroundScrollRate, 6),
             EnumMember(BackgroundScrollRate, 22), BoolV(TRUE)}

-----------------------------------------------------------------------------
(* The struct scenario: an instance is constructed or loaded, attributes   *)
(* are read and assigned (at most MaxSets times), the instance is saved,   *)
(* and the saved bytes are loaded again.                                   *)

BlockIdle ==
    /\ items = ListV(<<>>)
    /\ blk = None
    /\ blkout = None
    /\ reloaded = None

VariesIdle ==
    /\ vargs = None
    /\ varies = None
    /\ vgot = None

EnumIdle ==
    /\ ecls = None
    /\ emember = None
    /\ eraw = None
    /\ eback = None

CopyIdle ==
    /\ heap = <<>>
    /\ pobj = None
    /\ pcopy = None
    /\ ptouched = ""
    /\ nops = 0

AliasIdle ==
    /\ caller = None
    /\ aself = None
    /\ snap = None

CourseIdle ==
    /\ zones = <<>>
    /\ sprites = <<>>
    /\ used_sprite_ids = {}
    /\ cbefore = None
    /\ nprep = 0
    /\ zpos = None
    /\ zret = None

ContainerIdle ==
    /\ cblocks = <<>>
    /\ cmeta = <<>>
    /\ cend = "<"
    /\ cdata = None
    /\ cloaded = None

ArrayIdle ==
    /\ aitems = <<>>
    /\ aterm = <<>>
    /\ asaved = None
    /\ aloaded = None

LateIdle == CopyIdle /\ AliasIdle /\ CourseIdle /\ ContainerIdle /\ ArrayIdle

TransIdle ==
    /\ trans = None
    /\ traw = 0
    /\ tvalue = None
    /\ tback = None

BaseIdle ==
    /\ bstruct = None
    /\ bcall = None
    /\ ncalls = 0

FieldIdle ==
    /\ eng = "nsmbpy"
    /\ fieldA = None
    /\ fieldB = None
    /\ buf = None
    /\ beforeB = None
    /\ written = None
    /\ result = None
    /\ afterB = None
    /\ maskarg = None

\* cls(): the instance every scenario starts with
Init ==
    /\ game \in Games
    /\ cls \in Classes
    /\ inst = PerGameStruct_init(cls, EmptyDict)
    /\ src = None
    /\ prev = None
    /\ nsets = 0
    /\ lastset = None
    /\ out = None
    /\ got = None
    /\ BlockIdle /\ VariesIdle /\ EnumIdle /\ FieldIdle /\ BaseIdle /\ TransIdle /\ LateIdle

\* inst = cls.load(game, data), as the first step of a scenario
Load(data) ==
    /\ src = None /\ nsets = 0 /\ out = None /\ got = None
    /\ inst' = PerGameStruct_load(cls, game, data)
    /\ src' = BytesV(data)
    /\ UNCHANGED <<lateVars, transVars, baseVars, game, cls, prev, nsets, lastset, out, got, blockVars, variesVars, enumVars, fieldVars>>

\* inst.n = v (setattr stores any value)
SetField(n, v) ==
    /\ inst # Err
    /\ prev = None
    /\ nsets < MaxSets
    /\ inst' = [inst EXCEPT ![n] = v]
    /\ nsets' = nsets + 1
    /\ lastset' = [name |-> n]
    /\ out' = None
    /\ got' = None
    /\ UNCHANGED <<lateVars, transVars, baseVars, game, cls, src, prev, blockVars, variesVars, enumVars, fieldVars>>

\* the read inst.n, on an instance as it was constructed or loaded
GetField(n) ==
    /\ inst # Err
    /\ nsets = 0
    /\ got = None /\ out = None
    /\ got' = [name |-> n, value |-> inst[n]]
    /\ UNCHANGED <<lateVars, transVars, baseVars, game, cls, inst, src, prev, nsets, lastset, out, blockVars, variesVars, enumVars, fieldVars>>

\* out = inst.save(game)
Save ==
    /\ inst # Err
    /\ out = None
    /\ out' = PerGameStruct_save(cls, game, inst)
    /\ got' = None
    /\ UNCHANGED <<lateVars, transVars, baseVars, game, cls, inst, src, prev, nsets, lastset, blockVars, variesVars, enumVars, fieldVars>>

\* inst = cls.load(game, out): the saved bytes are loaded again
LoadSaved ==
    /\ prev = None
    /\ out # None /\ out # Err
    /\ inst' = PerGameStruct_load(cls, game, out.s)
    /\ src' = out
    /\ prev' = inst
    /\ nsets' = 0
    /\ lastset' = None
    /\ out' = None
    /\ got' = None
    /\ UNCHANGED <<lateVars, transVars, baseVars, game, cls, blockVars, variesVars, enumVars, fieldVars>>

Next ==
    \/ \E data \in LoadInputs(cls, game) : Load(data)
    \/ \E n \in SetNames(cls), v \in SetValues(cls) : SetField(n, v)
    \/ \E n \in FieldNames(cls) : GetField(n)
    \/ Save
    \/ LoadSaved

Spec == Init /\ [][Next]_vars

-----------------------------------------------------------------------------
(* Properties of the struct scenario *)

\* the length of the class for the game is known and data has that length
HasLength(c, g, data) ==
    /\ get_length(c, g) # Err
    /\ Len(data) = get_length(c, g).i

\* the indices of the bytes a field format covers
FieldByteSet(f) ==
    IF f.kind = "num"
    THEN (f.offset + 1)..(f.offset + calcsize(f.format_char))
    ELSE (f.offset + 1)..(f.offset + f.length)

\* a value the format saves on its own: bytes of the declared length, or
\* a value the numeric field packs without an exception
ValidValue(f, g, v) ==
    IF f.kind = "num"
    THEN ConcreteNumericField_save(f, g, Zeros(f.offset + calcsize(f.format_char)), v) # Err
    ELSE IsBytes(v) /\ Len(v.s) = f.length

\* every field that has a format for the game holds a valid value
ValidInstance(c, g, self) ==
    \A n \in FieldNames(c) :
        get_format(c, n, g) # None => ValidValue(get_format(c, n, g), g, self[n])

\* C1: the instance loaded from a buffer of exactly the struct's length
\* saves back to the same bytes, uncovered bytes included; after one field
\* was assigned, the saved bytes differ from the loaded ones only inside
\* that field
C1_ByteExact ==
    (src # None /\ prev = None /\ HasLength(cls, game, src.s)) =>
        /\ (nsets = 0 /\ out # None) => out = src
        /\ (nsets = 1 /\ out # None /\ out # Err
                /\ get_format(cls, lastset.name, game) # None) =>
              /\ Len(out.s) = Len(src.s)
              /\ \A i \in 1..Len(src.s) :
                    i \notin FieldByteSet(get_format(cls, lastset.name, game))
                        => out.s[i] = src.s[i]

\* C3: on a loaded instance, the read of a declared field that has no
\* format for the game raises
C3_AbsentFieldRaises ==
    (got # None /\ src # None /\ get_format(cls, got.name, game) = None)
        => got.value = Err

\* C8: when the instance that was saved holds valid values only, loading
\* the saved bytes succeeds and saving again gives the same bytes
C8_RoundTrip ==
    (prev # None /\ ValidInstance(cls, game, prev)) =>
        /\ inst # Err
        /\ out # None => out = src

\* a valid instance with an assigned field was saved, loaded and saved again
C8_Witness ==
    /\ prev # None /\ ValidInstance(cls, game, prev)
    /\ cls.name = "LevelObject" /\ prev["tileset_id"] = IntV(9)
    /\ out # None /\ out = src

\* C9: load raises for every data whose length is not get_length(game)
C9_LengthValidated ==
    (src # None /\ prev = None /\ get_length(cls, game) # Err
        /\ Len(src.s) # get_length(cls, game).i) => inst = Err

\* C11: load of a buffer of exactly the struct's length succeeds whatever
\* the bytes are; a byte an enum-cast field cannot decode never makes the
\* load itself raise
C11_LazyDecoding ==
    (src # None /\ prev = None /\ HasLength(cls, game, src.s)) => inst # Err

\* the indices of the bytes covered by the fields of the game that have a
\* class-level default
DefaultByteSet(c, g) ==
    UNION {FieldByteSet(get_format(c, c.fields[i].name, g)) :
             i \in {j \in 1..Len(c.fields) :
                      /\ c.fields[j].default # None
                      /\ VariesGet(c.fields[j].formats, g) # None}}

\* C12: an instance constructed with no arguments saves, for every game
\* the class has a length for, to get_length(game) bytes that are zero
\* outside the fields with a class-level default
C12_NewInstanceSaves ==
    (src = None /\ nsets = 0 /\ out # None /\ get_length(cls, game) # Err) =>
        /\ out # Err
        /\ Len(out.s) = get_length(cls, game).i
        /\ \A i \in 1..Len(out.s) :
              i \notin DefaultByteSet(cls, game) => out.s[i] = 0

\* the field named n holds an enum member that has no value for the game,
\* under a format of the game that casts to an enum
HoldsMemberWithoutValue(c, g, self, n) ==
    /\ get_format(c, n, g) # None
    /\ get_format(c, n, g).kind = "num"
    /\ \E k \in 1..Len(get_format(c, n, g).transformations) :
          get_format(c, n, g).transformations[k].op = "enum"
    /\ IsEnum(self[n])
    /\ VariesGet(self[n].value, g) = None

\* C15: the save of an instance one of whose enum-cast fields holds a
\* member without a value for the game raises; it returns no bytes
C15_NoRepresentationFails ==
    (out # None /\ inst # Err
        /\ \E n \in FieldNames(cls) : HoldsMemberWithoutValue(cls, game, inst, n))
        => out = Err

\* a loaded LevelBackgroundLayer whose only unsaveable value is the member
\* RATE_8_0, which has no value for NSMBW, was saved and the save raised
C15_Witness ==
    /\ cls.name = "LevelBackgroundLayer" /\ game = "NSMBW"
    /\ src # None /\ inst # Err /\ out = Err
    /\ inst["y_scroll_rate"] = EnumMember(BackgroundScrollRate, 22)
    /\ ValidInstance(cls, game,
            [inst EXCEPT !["y_scroll_rate"] = EnumMember(BackgroundScrollRate, 6)])

-----------------------------------------------------------------------------
(* The block scenario: a list of instances is built by hand (constructor   *)
(* calls and loads) or loaded from a block of bytes, saved as a block, and *)
(* the saved block is loaded again.                                        *)

StructIdle ==
    /\ inst = None
    /\ src = None
    /\ prev = None
    /\ nsets = 0
    /\ lastset = None
    /\ out = None
    /\ got = None

\* no scenario of the struct engines has started
EarlyIdle ==
    /\ cls = None
    /\ StructIdle
    /\ BlockIdle /\ VariesIdle /\ EnumIdle /\ FieldIdle /\ BaseIdle /\ TransIdle

\* the keyword arguments of the constructor calls that build list items
ItemKwargs(c) ==
    CASE c.name = "LevelObject" -> {EmptyDict, "type" :> IntV(9)}
      [] c.name = "LevelSprite" ->
            {EmptyDict, "data_1" :> BytesV(Sevens(6)), "data_1" :> BytesV(Sevens(10))}
      [] c.name = "LevelLocation" -> {EmptyDict, "id" :> IntV(9)}
      [] c.name = "LevelBackgroundLayer" ->
            {EmptyDict, "y_scroll_rate" :> EnumMember(BackgroundScrollRate, 22)}

\* n copies of the byte string bs
RECURSIVE Repeat(_, _)
Repeat(bs, n) == IF n = 0 THEN <<>> ELSE bs \o Repeat(bs, n - 1)

\* the blocks handed to load_block: up to MaxItems whole items of a fill
\* byte, then possibly one item up to MaxCut bytes short, then up to
\* MaxCopies copies of the block terminator
BlockInputs(c, g) ==
    {Repeat(<<f>>, n * LengthOrZero(c, g))
        \o (IF k = 0 \/ k >= LengthOrZero(c, g) THEN <<>>
            ELSE Repeat(<<f>>, LengthOrZero(c, g) - k))
        \o Repeat(get_block_terminator(c, g), m) :
        n \in 0..MaxItems, f \in FillBytes, k \in 0..MaxCut, m \in 0..MaxCopies}

InitBlock ==
    /\ game \in Games
    /\ cls \in Classes
    /\ StructIdle
    /\ BlockIdle /\ VariesIdle /\ EnumIdle /\ FieldIdle /\ BaseIdle /\ TransIdle /\ LateIdle

\* items.append(cls(**kwargs))
AppendItem(kwargs) ==
    /\ blk = None /\ blkout = None
    /\ Len(items.l) < MaxItems
    /\ items' = ListV(Append(items.l, PerGameStruct_init(cls, kwargs)))
    /\ UNCHANGED <<lateVars, transVars, baseVars, structVars, variesVars, enumVars, fieldVars, blk, blkout, reloaded>>

\* items.append(cls.load(game, data)), for data that loads
AppendLoaded(data) ==
    /\ blk = None /\ blkout = None
    /\ Len(items.l) < MaxItems
    /\ PerGameStruct_load(cls, game, data) # Err
    /\ items' = ListV(Append(items.l, PerGameStruct_load(cls, game, data)))
    /\ UNCHANGED <<lateVars, transVars, baseVars, structVars, variesVars, enumVars, fieldVars, blk, blkout, reloaded>>

\* items = cls.load_block(game, data)
LoadBlock(data) ==
    /\ blk = None /\ blkout = None
    /\ items = ListV(<<>>)
    /\ items' = PerGameStruct_load_block(cls, game, data)
    /\ blk' = BytesV(data)
    /\ UNCHANGED <<lateVars, transVars, baseVars, structVars, variesVars, enumVars, fieldVars, blkout, reloaded>>

\* blkout = cls.save_block(game, items)
SaveBlock ==
    /\ items # Err
    /\ blkout = None
    /\ blkout' = PerGameStruct_save_block(cls, game, items.l)
    /\ UNCHANGED <<lateVars, transVars, baseVars, structVars, variesVars, enumVars, fieldVars, items, blk, reloaded>>

\* reloaded = cls.load_block(game, blkout)
ReloadBlock ==
    /\ blkout # None /\ blkout # Err
    /\ reloaded = None
    /\ reloaded' = PerGameStruct_load_block(cls, game, blkout.s)
    /\ UNCHANGED <<lateVars, transVars, baseVars, structVars, variesVars, enumVars, fieldVars, items, blk, blkout>>

NextBlock ==
    \/ \E kwargs \in ItemKwargs(cls) : AppendItem(kwargs)
    \/ \E f \in FillBytes : AppendLoaded(Pattern(LengthOrZero(cls, game), f, 0, 0))
    \/ \E data \in BlockInputs(cls, game) : LoadBlock(data)
    \/ SaveBlock
    \/ ReloadBlock

SpecBlock == InitBlock /\ [][NextBlock]_vars

-----------------------------------------------------------------------------
(* Properties of the block scenario *)

\* the list load_block makes of the chunks: each chunk loaded, Err when
\* the load of a chunk raises
LoadChunks(c, g, chunks) ==
    IF \E k \in 1..Len(chunks) : PerGameStruct_load(c, g, chunks[k]) = Err
    THEN Err
    ELSE ListV([k \in 1..Len(chunks) |-> PerGameStruct_load(c, g, chunks[k])])

\* C5: for a class with a block terminator and a game with a length, the
\* list saves as a block, and loading that block gives a list of the same
\* length whose items save to the same bytes as the items of the list
C5_BlockRoundTrip ==
    (/\ items # Err /\ blkout # None
     /\ get_block_terminator(cls, game) # <<>>
     /\ get_length(cls, game) # Err) =>
        /\ blkout # Err
        /\ reloaded # None =>
              /\ reloaded # Err
              /\ Len(reloaded.l) = Len(items.l)
              /\ \A i \in 1..Len(items.l) :
                    PerGameStruct_save(cls, game, reloaded.l[i])
                        = PerGameStruct_save(cls, game, items.l[i])

\* C6: load_block raises when the data without its terminator is not a
\* whole number of items
C6_Truncated ==
    (/\ blk # None
     /\ get_length(cls, game) # Err
     /\ StripTerminator(blk.s, get_block_terminator(cls, game)) # Err
     /\ Len(StripTerminator(blk.s, get_block_terminator(cls, game)).s)
            % get_length(cls, game).i # 0) =>
        items = Err

\* C10: with a non-empty terminator, load_block raises for data that does
\* not end with it; for data that does, the items are the chunks of the
\* data without its last Len(terminator) bytes, no more being removed
C10_Terminator ==
    (/\ blk # None
     /\ get_block_terminator(cls, game) # <<>>
     /\ get_length(cls, game) # Err) =>
        IF endswith(blk.s, get_block_terminator(cls, game))
        THEN items = LoadChunks(cls, game,
                        divide_block(DropLast(blk.s, Len(get_block_terminator(cls, game))),
                                     get_length(cls, game).i))
        ELSE items = Err

\* a block that ends with two copies of the terminator was loaded, and
\* the copy that was not removed became (part of) an item
C10_Witness ==
    /\ blk # None
    /\ get_block_terminator(cls, game) # <<>>
    /\ endswith(blk.s, get_block_terminator(cls, game) \o get_block_terminator(cls, game))
    /\ items # Err
    /\ Len(items.l) > 0

-----------------------------------------------------------------------------
(* The VariesPerGame scenario: a VariesPerGame is constructed from keyword *)
(* arguments, each left out or given a value of its own, and get is called *)
(* for a game.                                                             *)

VariesArgs ==
    [default : {None, IntV(1)}, nsmb : {None, IntV(2)}, nsmbw : {None, IntV(3)},
     nsmb2 : {None, IntV(4)}, nsmbu : {None, IntV(5)}, nslu : {None, IntV(6)},
     nsmbudx : {None, IntV(7)}, wiiu : {None, IntV(8)},
     like_nsmbu : {None, IntV(9)}]

InitVaries ==
    /\ game = "NSMB"
    /\ cls = None
    /\ StructIdle
    /\ BlockIdle /\ VariesIdle /\ EnumIdle /\ FieldIdle /\ BaseIdle /\ TransIdle /\ LateIdle

\* varies = VariesPerGame(**a)
Construct(a) ==
    /\ varies = None
    /\ vargs' = a
    /\ varies' = VariesPerGame(a)
    /\ UNCHANGED <<lateVars, transVars, baseVars, structVars, blockVars, enumVars, fieldVars, vgot>>

\* varies.get(g)
Get(g) ==
    /\ varies # None
    /\ vgot = None
    /\ vgot' = [game |-> g, value |-> VariesGet(varies, g)]
    /\ UNCHANGED <<lateVars, transVars, baseVars, structVars, blockVars, enumVars, fieldVars, vargs, varies>>

NextVaries ==
    \/ \E a \in VariesArgs : Construct(a)
    \/ \E g \in Games : Get(g)

SpecVaries == InitVaries /\ [][NextVaries]_vars

\* the individual argument of the constructor that names the game
IndividualArg(a, g) ==
    CASE g = "NSMB" -> a.nsmb
      [] g = "NSMBW" -> a.nsmbw
      [] g = "NSMB2" -> a.nsmb2
      [] g = "NSMBU" -> a.nsmbu
      [] g = "NSLU" -> a.nslu
      [] g = "NSMBUDX" -> a.nsmbudx

\* the values given for the groups the game belongs to
GroupArgs(a, g) ==
    (IF g \in all_wii_u /\ a.wiiu # None THEN {a.wiiu} ELSE {})
    \cup (IF g \in all_like_nsmbu /\ a.like_nsmbu # None THEN {a.like_nsmbu} ELSE {})

\* C7: when both an individual argument and a group argument target the
\* game, get returns the individual value; a group value is returned only
\* for a game without an individual value
C7_IndividualWins ==
    vgot # None =>
        /\ (IndividualArg(vargs, vgot.game) # None /\ GroupArgs(vargs, vgot.game) # {})
                => vgot.value = IndividualArg(vargs, vgot.game)
        /\ vgot.value \in GroupArgs(vargs, vgot.game)
                => IndividualArg(vargs, vgot.game) = None

\* the values the constructor's arguments assign to the game
AssignedValues(a, g) ==
    (IF IndividualArg(a, g) # None THEN {IndividualArg(a, g)} ELSE {})
    \cup GroupArgs(a, g)

\* C17: get returns a value assigned to the game when an argument assigns
\* one, else the default of the constructor, else None; per_game holds no
\* None
C17_Lookup ==
    /\ varies # None => \A g \in DOMAIN varies.per_game : varies.per_game[g] # None
    /\ vgot # None =>
          /\ vgot.value # Err
          /\ AssignedValues(vargs, vgot.game) # {}
                => vgot.value \in AssignedValues(vargs, vgot.game)
          /\ AssignedValues(vargs, vgot.game) = {} => vgot.value = vargs.default

\* get fell back to the default of a VariesPerGame that holds values for
\* other games
C17_Witness ==
    /\ vgot # None /\ vgot.game = "NSMB"
    /\ vargs.nsmb = None /\ vargs.nsmbw = IntV(3) /\ vargs.like_nsmbu = IntV(9)
    /\ vargs.default = IntV(1) /\ vgot.value = IntV(1)

-----------------------------------------------------------------------------
(* The enum scenario: a member of a StructFieldEnum subclass is saved for  *)
(* the game and the raw value is loaded again.                             *)

InitEnum ==
    /\ game \in Games
    /\ cls = None
    /\ StructIdle
    /\ BlockIdle /\ VariesIdle /\ EnumIdle /\ FieldIdle /\ BaseIdle /\ TransIdle /\ LateIdle

\* emember = the i-th member of the enum class ec
PickMember(ec, i) ==
    /\ emember = None
    /\ ecls' = ec
    /\ emember' = EnumMember(ec, i)
    /\ UNCHANGED <<lateVars, transVars, baseVars, structVars, blockVars, variesVars, fieldVars, eraw, eback>>

\* eraw = emember.save(game)
EnumSave ==
    /\ emember # None
    /\ eraw = None
    /\ eraw' = StructFieldEnum_save(emember, game)
    /\ UNCHANGED <<lateVars, transVars, baseVars, structVars, blockVars, variesVars, fieldVars, ecls, emember, eback>>

\* eback = ecls.load(game, eraw)
EnumLoad ==
    /\ eraw # None /\ eraw # Err
    /\ eback = None
    /\ eback' = StructFieldEnum_load(ecls, game, eraw)
    /\ UNCHANGED <<lateVars, transVars, baseVars, structVars, blockVars, variesVars, fieldVars, ecls, emember, eraw>>

NextEnum ==
    \/ \E ec \in EnumClasses : \E i \in 1..Len(ec.members) : PickMember(ec, i)
    \/ EnumSave
    \/ EnumLoad

SpecEnum == InitEnum /\ [][NextEnum]_vars

\* C4: a member that has a value for the game, saved and loaded again, is
\* the same member
C4_EnumRoundTrip ==
    (eback # None /\ VariesGet(emember.value, game) # None) => eback = emember

-----------------------------------------------------------------------------
(* The field scenario: two numeric fields on the same backing integer, at  *)
(* disjoint bits, as level.py declares them.  fieldB is read, a value is   *)
(* written to fieldA (by ConcreteNumericField.save in nsmbpy, by the       *)
(* wrapper chain's set in nsmbpy2), and fieldB is read again.              *)

Engines == {"nsmbpy", "nsmbpy2"}

\* one game of each byte order
FieldGames == {"NSMB", "NSMBW"}

\* the pairs, with the backing integer at offset o: LevelObject.tileset_id
\* and type; LevelEntrance.suppress_player_1 and suppress_player_2
ArithmeticPairs(o) ==
    { <<rshift(U16(o), 12), mask(U16(o), 4095)>>,
      <<mask(U16(o), 4095), rshift(U16(o), 12)>>,
      <<mask_bool(U8(o), 1), mask_bool(U8(o), 2)>>,
      <<mask_bool(U8(o), 2), mask_bool(U8(o), 1)>> }

\* LevelBackgroundLayer.y_scroll_rate and move_downwards;
\* LevelEntrance.transition and non_enterable
EnumPairs(o) ==
    { <<enum(mask(U8(o), 15), BackgroundScrollRate), mask_bool(U8(o), 128)>>,
      <<mask_bool(U8(o), 128), enum(mask(U8(o), 15), BackgroundScrollRate)>>,
      <<enum(mask(rshift(U8(o), 4), 1), Transition), mask_bool(U8(o), 128)>>,
      <<mask_bool(U8(o), 128), enum(mask(rshift(U8(o), 4), 1), Transition)>> }

\* the pairs of an engine for a game; the nsmbpy2 fields are of the LE_ or
\* BE_ class of the game's byte order
FieldPairs(e, g) ==
    IF e = "nsmbpy" THEN ArithmeticPairs(1) \cup EnumPairs(1)
    ELSE {<<WithEndianness(p[1], endianness(g)), WithEndianness(p[2], endianness(g))>> :
            p \in ArithmeticPairs(1)}

\* what the backing integer holds before the write
BackingValues(fc) ==
    IF calcsize(fc) = 1 THEN {0, 1, 2, 15, 16, 129, 165, 255}
    ELSE {0, 4095, 4096, 4660, 32769, 42405, 61440, 65535}

\* a byte, the backing integer x of field f, and a byte
FieldBuffer(f, g, x) ==
    <<238>>
    \o (IF FieldEndianness(f, g) = "<"
        THEN Reverse(NatToBytes(x, calcsize(f.format_char)))
        ELSE NatToBytes(x, calcsize(f.format_char)))
    \o <<119>>

\* the read of a field by the engine
ReadField(e, f, g, data) ==
    IF e = "nsmbpy" THEN ConcreteNumericField_load(f, g, data)
    ELSE StructField_get(f, data)

\* the write of a field by the engine: the new bytes, or Err
WriteField(e, f, g, data, value) ==
    IF e = "nsmbpy" THEN ConcreteNumericField_save(f, g, data, value)
    ELSE StructField_set(f, data, value)

\* the values written: every value the field reads from some buffer, and
\* values it cannot hold
WriteValues(e, f, g) ==
    ({ReadField(e, f, g, FieldBuffer(f, g, x)) : x \in BackingValues(f.format_char)}
        \ {Err})
    \cup {IntV(-1), IntV(16), IntV(4097)}

InitField ==
    /\ game \in FieldGames
    /\ cls = None
    /\ StructIdle
    /\ BlockIdle /\ VariesIdle /\ EnumIdle /\ BaseIdle /\ TransIdle /\ LateIdle
    /\ eng \in Engines
    /\ \E p \in FieldPairs(eng, game) :
          /\ fieldA = p[1]
          /\ fieldB = p[2]
          /\ buf \in {BytesV(FieldBuffer(p[1], game, x)) :
                        x \in BackingValues(p[1].format_char)}
    /\ beforeB = None
    /\ written = None
    /\ result = None
    /\ afterB = None
    /\ maskarg = None

\* beforeB = the value of fieldB in buf
ReadBefore ==
    /\ beforeB = None
    /\ beforeB' = ReadField(eng, fieldB, game, buf.s)
    /\ UNCHANGED <<lateVars, transVars, baseVars, structVars, blockVars, variesVars, enumVars,
                   maskarg, eng, fieldA, fieldB, buf, written, result, afterB>>

\* the write of v to fieldA
Write(v) ==
    /\ beforeB # None
    /\ written = None
    /\ written' = v
    /\ result' = WriteField(eng, fieldA, game, buf.s, v)
    /\ UNCHANGED <<lateVars, transVars, baseVars, structVars, blockVars, variesVars, enumVars,
                   maskarg, eng, fieldA, fieldB, buf, beforeB, afterB>>

\* afterB = the value of fieldB in the bytes the write left
ReadAfter ==
    /\ result # None /\ result # Err
    /\ afterB = None
    /\ afterB' = ReadField(eng, fieldB, game, result.s)
    /\ UNCHANGED <<lateVars, transVars, baseVars, structVars, blockVars, variesVars, enumVars,
                   maskarg, eng, fieldA, fieldB, buf, beforeB, written, result>>

NextField ==
    \/ ReadBefore
    \/ \E v \in WriteValues(eng, fieldA, game) : Write(v)
    \/ ReadAfter

SpecField == InitField /\ [][NextField]_vars

\* C2: after a write to fieldA that did not raise, fieldB reads the value
\* it read before the write, in both engines and whatever buf held
C2_MaskPreserved ==
    afterB # None => afterB = beforeB

\* a write changed the value of fieldA under a fieldB that is not zero
C2_Witness ==
    /\ afterB # None
    /\ beforeB \notin {IntV(0), BoolV(FALSE), Err}
    /\ ReadField(eng, fieldA, game, result.s) # ReadField(eng, fieldA, game, buf.s)
    /\ ReadField(eng, fieldA, game, result.s) = written

-----------------------------------------------------------------------------
(* The BaseStruct scenario of nsmbpy2: an instance of a struct class is    *)
(* constructed from nothing or from bytes, and fields are read and written *)
(* through get / set and through attribute access (at most MaxCalls        *)
(* calls).                                                                 *)

MaxCalls == 1

\* an IntEnum as _abstract_json_versioned_api builds them from a list of
\* members: some values of the byte have no member
SampleEnum ==
    [name |-> "Kind",
     members |-> << [name |-> "A", value |-> 0], [name |-> "B", value |-> 1],
                    [name |-> "C", value |-> 3] >>]

\* a struct class as _base_struct_from_json builds them: plain, masked,
\* mask_bool, bool and enum numeric fields, a string field and a
\* bytestring field
SampleStruct ==
    create_basestruct_subclass("SampleStruct", 9,
        [id |-> WithEndianness(U16(0), ">"),
         low |-> mask(WithEndianness(U8(2), ">"), 15),
         flag |-> mask_bool(WithEndianness(U8(2), ">"), 128),
         on |-> bool(WithEndianness(U8(3), ">")),
         kind |-> NumericFieldEnum(WithEndianness(U8(4), "<"), SampleEnum),
         name |-> decode(BytestringField(5, 4), "ascii"),
         tag |-> BytestringField(7, 2)])

\* the data handed to the constructor
BaseInputs ==
    {None, BytesV([i \in 1..9 |-> 0]), BytesV([i \in 1..9 |-> 255]),
     BytesV(<<238, 129, 165, 2, 2, 65, 66, 67, 68>>),
     BytesV(<<0, 7, 128, 0, 3, 97, 0, 255, 0>>)}

\* the keys used: the fields, a name that names nothing, and two names of
\* attributes that are not fields
BaseKeys == DOMAIN SampleStruct.fields \cup {"bogus", "raw_data", "fields"}

\* the values written
BaseValues ==
    {IntV(5), IntV(-1), IntV(300), IntV(70000), BoolV(TRUE), BoolV(FALSE),
     StrV(<<97, 98, 99>>), StrV(<<97, 98, 99, 100>>), BytesV(<<97, 98>>),
     BytesV([i \in 1..9 |-> 7]), IntEnumV("Kind", "C", 3), None}

InitBase ==
    /\ game = "NSMB"
    /\ cls = None
    /\ StructIdle
    /\ BlockIdle /\ VariesIdle /\ EnumIdle /\ FieldIdle /\ TransIdle /\ LateIdle
    /\ bstruct \in {BaseStruct_init(SampleStruct, data).self : data \in BaseInputs}
    /\ bcall = None
    /\ ncalls = 0

\* the call recorded with its outcome r
Called(op, form, key, value, r) ==
    /\ ncalls < MaxCalls
    /\ bcall' = [op |-> op, form |-> form, key |-> key, value |-> value,
                 exc |-> r.exc, ret |-> r.value, before |-> bstruct]
    /\ bstruct' = r.self
    /\ ncalls' = ncalls + 1
    /\ UNCHANGED <<lateVars, transVars, structVars, blockVars, variesVars, enumVars, fieldVars>>

\* bstruct.get(key)
BaseGet(key) ==
    Called("get", "method", key, None, BaseStruct_get(SampleStruct, bstruct, key))

\* bstruct.set(key, value)
BaseSet(key, value) ==
    Called("set", "method", key, value,
           BaseStruct_set(SampleStruct, bstruct, key, value))

\* the read bstruct.key
BaseGetAttr(key) ==
    Called("get", "attr", key, None, BaseStruct_getattr(SampleStruct, bstruct, key))

\* the assignment bstruct.key = value
BaseSetAttr(key, value) ==
    Called("set", "attr", key, value,
           BaseStruct_setattr(SampleStruct, bstruct, key, value))

\* the item assignment bstruct[key] = value
BaseSetItem(key, value) ==
    Called("setitem", "item", key, value, BaseStruct_setitem(bstruct, key, value))

NextBase ==
    \/ \E key \in BaseKeys : BaseGet(key)
    \/ \E key \in BaseKeys, value \in BaseValues : BaseSet(key, value)
    \/ \E key \in BaseKeys : BaseGetAttr(key)
    \/ \E key \in BaseKeys, value \in BaseValues : BaseSetAttr(key, value)
    \/ \E key \in {IntV(0), SliceKey(0, 2)}, value \in BaseValues :
          BaseSetItem(key, value)

SpecBase == InitBase /\ [][NextBase]_vars

\* C13: whenever BaseStruct.set raises, raw_data is what it was before
\* the call
C13_NoPartialMutation ==
    (bcall # None /\ bcall.op = "set" /\ bcall.form = "method" /\ bcall.exc # "")
        => bstruct.raw_data = bcall.before.raw_data

\* C14: the read of an enum-cast field whose raw value equals no member's
\* value fails with an error and returns no fallback value
C14_UnknownEnumFails ==
    (bcall # None /\ bcall.op = "get" /\ bcall.key = "kind"
        /\ IntEnum_call(SampleEnum, bcall.before.raw_data[5]) = Err)
        => bcall.exc # ""

\* the names an instance answers to without consulting its fields
ReservedNames == {"raw_data"} \cup ClassAttributes

\* C16: get(key) and set(key, value) raise for every key that is not a
\* field and leave the instance as it was; so do the attribute read and
\* the attribute assignment for every such key that is not the name of an
\* attribute of the instance or its class, and no assignment to a key that
\* is not a field adds a plain attribute to the instance
C16_UndeclaredKeyFails ==
    (bcall # None /\ bcall.form # "item"
        /\ bcall.key \notin DOMAIN SampleStruct.fields) =>
        /\ bstruct.dict = bcall.before.dict
        /\ (bcall.form = "method" \/ bcall.key \notin ReservedNames) =>
              /\ bcall.exc # ""
              /\ bstruct = bcall.before

\* the assignment to an undeclared name raised AttributeError on an
\* instance whose raw_data is not zero
C16_Witness ==
    /\ bcall # None /\ bcall.op = "set" /\ bcall.form = "attr"
    /\ bcall.key = "bogus" /\ bcall.value = IntV(5)
    /\ bcall.exc = "AttributeError"
    /\ bstruct.raw_data[1] = 238

-----------------------------------------------------------------------------
(* The transformation scenario: one transformation of ConcreteNumericField *)
(* is applied to a raw value of an 8-bit field, signed or unsigned, and    *)
(* the result is handed to its untransform.                                *)

\* the transformations, as the fluent calls of level.py build them
Transformations ==
    {f.transformations[1] :
        f \in {mask(U8(0), 15), mask(U8(0), 128), lshift(U8(0), 2),
               rshift(U8(0), 4), rshift(U8(0), 7), bool(U8(0)),
               enum(U8(0), BackgroundScrollRate), enum(U8(0), Transition)}}

\* the integers an S8 or a U8 field holds
RawValues == PackMin("b")..PackMax("B")

InitTransform ==
    /\ game \in FieldGames
    /\ cls = None
    /\ StructIdle
    /\ BlockIdle /\ VariesIdle /\ EnumIdle /\ FieldIdle /\ BaseIdle /\ LateIdle
    /\ trans \in Transformations
    /\ traw \in RawValues
    /\ tvalue = None
    /\ tback = None

\* tvalue = trans.transform(game, traw)
Transform ==
    /\ tvalue = None
    /\ tvalue' = transform(trans, game, IntV(traw))
    /\ UNCHANGED <<lateVars, structVars, blockVars, variesVars, enumVars, fieldVars,
                   baseVars, trans, traw, tback>>

\* tback = trans.untransform(game, tvalue)
Untransform ==
    /\ tvalue # None /\ tvalue # Err
    /\ tback = None
    /\ tback' = untransform(trans, game, tvalue)
    /\ UNCHANGED <<lateVars, structVars, blockVars, variesVars, enumVars, fieldVars,
                   baseVars, trans, traw, tvalue>>

NextTransform == Transform \/ Untransform

SpecTransform == InitTransform /\ [][NextTransform]_vars

\* C18 as claimed: for every kind of transformation and every raw value of
\* the field's width, untransform(game, transform(game, x)) is x
C18_RoundTripAll ==
    tback # None => tback = IntV(traw)

\* the raw values a transformation itself writes: no bit outside the mask,
\* the bits a right shift drops zero, 0 or 1 under bool; a left shift and
\* an enum cast (whose transform raises for any other value) write them all
Writable(t, x) ==
    CASE t.op = "mask" -> BitAnd(x, BitNot(t.bitmask)) = 0
      [] t.op = "rshift" -> x % Pow2(t.amount) = 0
      [] t.op = "bool" -> x \in {0, 1}
      [] OTHER -> TRUE

\* C18 as amended: untransform(game, transform(game, x)) is x for every raw
\* value x that the transformation itself writes
C18_RoundTrip ==
    (tback # None /\ Writable(trans, traw)) => tback = IntV(traw)

\* a raw value with high and low bits set came back from a left shift
C18_Witness ==
    /\ tback # None /\ traw # 0 /\ Writable(trans, traw)
    /\ trans.op = "lshift" /\ traw = 165 /\ tback = IntV(165)

-----------------------------------------------------------------------------
(* The write scenario: one numeric field over a backing integer is read,   *)
(* written and read again, by ConcreteNumericField.load / save in nsmbpy   *)
(* and by the wrapper chain's get / set in nsmbpy2.                        *)

\* the transformation chains written through, with the enum cast of the
\* engine: chains of level.py, a left shift and a bool without a mask
ChainFields(e) ==
    {mask(U8(1), 15), mask(U16(1), 4095), rshift(U16(1), 12), lshift(U8(1), 2),
     bool(U8(1)), bool(mask(U8(1), 1))}
    \cup (IF e = "nsmbpy"
          THEN {enum(mask(U8(1), 15), BackgroundScrollRate),
                enum(mask(rshift(U8(1), 4), 1), Transition)}
          ELSE {NumericFieldEnum(mask(U8(1), 15), SampleEnum)})

\* the masks handed to mask_bool: every bit of the field's width, and
\* masks with no bit or with several bits
MaskArgs(fc) == {Pow2(k) : k \in 0..(8 * calcsize(fc) - 1)} \cup {0, 3, 129}

\* the field of an engine for a game: nsmbpy2 fields are of the LE_ or
\* BE_ class of the game's byte order
EngineField(e, g, f) == IF e = "nsmbpy" THEN f ELSE WithEndianness(f, endianness(g))

\* the backing integer of field f in data
Backing(f, g, data) ==
    unpack_from(FieldEndianness(f, g), f.format_char, data, f.offset).i

InitWrite ==
    /\ game \in FieldGames
    /\ cls = None
    /\ StructIdle
    /\ BlockIdle /\ VariesIdle /\ EnumIdle /\ BaseIdle /\ TransIdle /\ LateIdle
    /\ eng \in Engines
    /\ fieldB = None
    /\ \/ /\ maskarg = None
          /\ fieldA \in {EngineField(eng, game, f) : f \in ChainFields(eng)}
       \/ \E base \in {U8(1), U16(1)} :
             \E m \in MaskArgs(base.format_char) :
                /\ maskarg = IntV(m)
                /\ fieldA = mask_bool(EngineField(eng, game, base), m)
    /\ buf \in UNION {{BytesV(FieldBuffer(base, game, x)) :
                           x \in BackingValues(base.format_char)} :
                      base \in {U8(1), U16(1)}}
    /\ fieldA # Err => Len(buf.s) = 2 + calcsize(fieldA.format_char)
    /\ beforeB = None
    /\ written = None
    /\ result = None
    /\ afterB = None

\* beforeB = the value of fieldA in buf
ReadFirst ==
    /\ fieldA # Err
    /\ beforeB = None
    /\ beforeB' = ReadField(eng, fieldA, game, buf.s)
    /\ UNCHANGED <<lateVars, structVars, blockVars, variesVars, enumVars, baseVars, transVars,
                   maskarg, eng, fieldA, fieldB, buf, written, result, afterB>>

\* the write of v to fieldA
WriteOne(v) ==
    /\ fieldA # Err
    /\ beforeB # None
    /\ written = None
    /\ written' = v
    /\ result' = WriteField(eng, fieldA, game, buf.s, v)
    /\ UNCHANGED <<lateVars, structVars, blockVars, variesVars, enumVars, baseVars, transVars,
                   maskarg, eng, fieldA, fieldB, buf, beforeB, afterB>>

\* afterB = the value of fieldA in the bytes the write left
ReadBack ==
    /\ result # None /\ result # Err
    /\ afterB = None
    /\ afterB' = ReadField(eng, fieldA, game, result.s)
    /\ UNCHANGED <<lateVars, structVars, blockVars, variesVars, enumVars, baseVars, transVars,
                   maskarg, eng, fieldA, fieldB, buf, beforeB, written, result>>

NextWrite ==
    \/ ReadFirst
    \/ /\ fieldA # Err
       /\ \E v \in WriteValues(eng, fieldA, game) \cup {BoolV(TRUE), BoolV(FALSE)} :
             WriteOne(v)
    \/ ReadBack

SpecWrite == InitWrite /\ [][NextWrite]_vars

\* the write mask as C19 states it: the fold over the chain from the
\* last-applied transformation to the first, starting from incoming
RECURSIVE ClaimedMask(_, _, _)
ClaimedMask(ts, n, incoming) ==
    IF n = 0 THEN incoming
    ELSE ClaimedMask(ts, n - 1,
            CASE ts[n].op = "mask" -> BitAnd(incoming, ts[n].bitmask)
              [] ts[n].op = "lshift" -> Shr(incoming, ts[n].amount)
              [] ts[n].op = "rshift" -> Shl(incoming, ts[n].amount)
              [] ts[n].op = "bool" -> BitAnd(incoming, 1)
              [] OTHER -> incoming)

\* the integer the chain hands down for the value v, before any merge
NewRaw(e, f, g, v) ==
    IF e = "nsmbpy"
    THEN AsInt(UntransformAll(f.transformations, Len(f.transformations), g, v))
    ELSE AsInt(Wrapped_args(f, Len(f.transformations), v, -1).value)

\* the integer C19 says is written over the backing integer cur
ClaimedWrite(m, new, cur) ==
    IF m = -1 THEN new ELSE BitOr(BitAnd(new, m), BitAnd(cur, BitNot(m)))

\* C19: the backing integer after a write that did not raise is
\* (new & mask) | (current & ~mask) for the folded mask of the chain (new
\* itself when the mask is -1), in both engines
C19_EffectiveMask ==
    (result # None /\ result # Err) =>
        Backing(fieldA, game, result.s) =
            ClaimedWrite(
                ClaimedMask(fieldA.transformations, Len(fieldA.transformations), -1),
                NewRaw(eng, fieldA, game, written),
                Backing(fieldA, game, buf.s))

\* bit k of x, as 0 or 1
BitOf(x, k) == (x \div Pow2(k)) % 2

\* x with bit k set (on) or cleared, every other bit as in x
WithBit(x, k, on) == x - BitOf(x, k) * Pow2(k) + (IF on THEN Pow2(k) ELSE 0)

-----------------------------------------------------------------------------
(* The copy scenario: a PerGameStruct instance whose field values may be   *)
(* list or bytearray objects, its copy(), and assignments and in-place     *)
(* mutations on either.  An object is known by its address in heap, so     *)
(* that two fields can hold the same object.                               *)

MaxOps == 3

\* a reference to the object at address a of the heap
Ref(a) == [t |-> "ref", a |-> a]

\* a list or a bytearray with the elements l
Obj(type, l) == [t |-> type, l |-> l]

\* the loop of copy over the fields fs[k], fs[k + 1], ...: list(value) and
\* bytearray(value) make a new object, any other value is shared
RECURSIVE CopyFields(_, _, _, _, _)
CopyFields(fs, self, self2, h, k) ==
    IF k > Len(fs) THEN [self |-> self2, heap |-> h]
    ELSE LET value == self[fs[k]]
         IN  IF value.t = "ref" /\ h[value.a].t \in {"list", "bytearray"}
             THEN CopyFields(fs, self, [self2 EXCEPT ![fs[k]] = Ref(Len(h) + 1)],
                             Append(h, h[value.a]), k + 1)
             ELSE CopyFields(fs, self, [self2 EXCEPT ![fs[k]] = value], h, k + 1)

\* a copy that hands every value over as it is: a faulty variant, under
\* which C21 breaks
PerGameStruct_copy_shared(c, self, h) == [self |-> self, heap |-> h]

\* PerGameStruct.copy: the new instance and the heap with its new objects
PerGameStruct_copy(c, self, h) ==
    CopyFields(fields(c), self, PerGameStruct_init(c, EmptyDict), h, 1)

\* the fields assigned and mutated, and the values assigned: an int, or a
\* new list or bytearray
TouchedFields == {"x", "id"}
NewObjects == {Obj("list", <<1, 2>>), Obj("bytearray", <<1, 2>>)}

InitCopy ==
    /\ game = "NSMB"
    /\ EarlyIdle /\ AliasIdle /\ CourseIdle /\ ContainerIdle /\ ArrayIdle
    /\ heap = <<>>
    /\ pobj = PerGameStruct_init(LevelLocation, EmptyDict)
    /\ pcopy = None
    /\ ptouched = ""
    /\ nops = 0

\* who is "orig" or "copy"
Instance(who) == IF who = "orig" THEN pobj ELSE pcopy

\* setattr(instance, n, value)
AssignTo(who, n, value) ==
    /\ pobj' = IF who = "orig" THEN [pobj EXCEPT ![n] = value] ELSE pobj
    /\ pcopy' = IF who = "copy" THEN [pcopy EXCEPT ![n] = value] ELSE pcopy
    /\ ptouched' = who
    /\ nops' = nops + 1

\* instance.n = 7
AssignInt(who, n) ==
    /\ nops < MaxOps
    /\ Instance(who) # None
    /\ AssignTo(who, n, IntV(7))
    /\ UNCHANGED <<restOfCopy, heap>>

\* instance.n = [1, 2] or instance.n = bytearray(b'\x01\x02')
AssignObject(who, n, o) ==
    /\ nops < MaxOps
    /\ Instance(who) # None
    /\ heap' = Append(heap, o)
    /\ AssignTo(who, n, Ref(Len(heap) + 1))
    /\ UNCHANGED restOfCopy

\* instance.n.append(9)
MutateAppend(who, n) ==
    /\ nops < MaxOps
    /\ Instance(who) # None
    /\ Instance(who)[n].t = "ref"
    /\ heap' = [heap EXCEPT ![Instance(who)[n].a].l = Append(@, 9)]
    /\ ptouched' = who
    /\ nops' = nops + 1
    /\ UNCHANGED <<restOfCopy, pobj, pcopy>>

\* instance.n[0] = 8
MutateItem(who, n) ==
    /\ nops < MaxOps
    /\ Instance(who) # None
    /\ Instance(who)[n].t = "ref"
    /\ heap' = [heap EXCEPT ![Instance(who)[n].a].l[1] = 8]
    /\ ptouched' = who
    /\ nops' = nops + 1
    /\ UNCHANGED <<restOfCopy, pobj, pcopy>>

\* pcopy = pobj.copy()
Copy ==
    /\ pcopy = None
    /\ LET r == PerGameStruct_copy(LevelLocation, pobj, heap)
       IN  /\ pcopy' = r.self
           /\ heap' = r.heap
    /\ ptouched' = ""
    /\ UNCHANGED <<restOfCopy, pobj, nops>>

NextCopy ==
    \/ \E who \in {"orig", "copy"}, n \in TouchedFields :
          \/ AssignInt(who, n)
          \/ \E o \in NewObjects : AssignObject(who, n, o)
          \/ MutateAppend(who, n)
          \/ MutateItem(who, n)
    \/ Copy

SpecCopy == InitCopy /\ [][NextCopy]_vars

\* the value of a field: the int, or the type and elements of the object
Deref(v, h) == IF v.t = "ref" THEN h[v.a] ELSE v

\* the field values of an instance
FieldValues(o, h) == [n \in DOMAIN o |-> Deref(o[n], h)]

\* C21: the copy has the value of the original for every field, and no
\* assignment or in-place mutation of a list or bytearray value on one of
\* the two changes a field value of the other
C21_CopyIndependence ==
    [][pcopy' # None =>
         /\ pcopy = None => FieldValues(pcopy', heap') = FieldValues(pobj, heap)
         /\ (pcopy # None /\ ptouched' = "orig") =>
               FieldValues(pcopy', heap') = FieldValues(pcopy, heap)
         /\ (pcopy # None /\ ptouched' = "copy") =>
               FieldValues(pobj', heap') = FieldValues(pobj, heap)]_vars

\* the original held the list [1, 2] in x when it was copied and 9 was then
\* appended to it: the copy still holds [1, 2], in an object of its own
C21_Witness ==
    /\ pcopy # None
    /\ ptouched = "orig"
    /\ pobj["x"].t = "ref" /\ pcopy["x"].t = "ref"
    /\ pobj["x"] # pcopy["x"]
    /\ heap[pobj["x"].a] = Obj("list", <<1, 2, 9>>)
    /\ heap[pcopy["x"].a] = Obj("list", <<1, 2>>)

-----------------------------------------------------------------------------
(* The buffer scenario: a BaseStruct is built from a bytes or bytearray    *)
(* object of the caller; the struct is written through set, the caller     *)
(* changes its bytearray, and bytes(struct) is taken.                      *)

\* the buffers the caller holds
CallerObjects ==
    {Obj(type, l) : type \in {"bytes", "bytearray"},
                    l \in {<<238, 129, 165, 2, 2, 65, 66, 67, 68>>,
                           [i \in 1..9 |-> 0]}}

\* the set calls made on the struct
AliasSets ==
    {<<"id", IntV(5)>>, <<"flag", BoolV(TRUE)>>, <<"flag", BoolV(FALSE)>>,
     <<"name", StrV(<<97, 98, 99>>)>>, <<"id", IntV(70000)>>}

\* an __init__ that keeps the caller's bytearray as raw_data: a faulty
\* variant, under which C22 breaks
BaseStruct_init_keep(c, data, h) ==
    IF Len(h[data.a].l) # c.raw_data_length
    THEN [exc |-> "ValueError", self |-> None, heap |-> h]
    ELSE IF h[data.a].t = "bytearray"
    THEN [exc |-> "", self |-> [raw_data |-> data], heap |-> h]
    ELSE [exc |-> "", self |-> [raw_data |-> Ref(Len(h) + 1)],
          heap |-> Append(h, Obj("bytearray", h[data.a].l))]

\* BaseStruct.__init__(data) for a data object: bytearray(data) is a new
\* object, which __setattr__ stores when it has raw_data_length bytes
BaseStruct_init_object(c, data, h) ==
    IF Len(h[data.a].l) # c.raw_data_length
    THEN [exc |-> "ValueError", self |-> None,
          heap |-> Append(h, Obj("bytearray", h[data.a].l))]
    ELSE [exc |-> "", self |-> [raw_data |-> Ref(Len(h) + 1)],
          heap |-> Append(h, Obj("bytearray", h[data.a].l))]

\* BaseStruct.__bytes__: a new bytes object
BaseStruct_bytes(self, h) ==
    [value |-> Ref(Len(h) + 1), heap |-> Append(h, Obj("bytes", h[self.raw_data.a].l))]

InitAlias ==
    /\ game = "NSMB"
    /\ EarlyIdle /\ CourseIdle /\ ContainerIdle /\ ArrayIdle
    /\ pobj = None /\ pcopy = None
    /\ \E o \in CallerObjects : heap = <<o>>
    /\ caller = Ref(1)
    /\ aself = None
    /\ snap = None
    /\ ptouched = ""
    /\ nops = 0

\* aself = SampleStruct(caller)
AliasConstruct ==
    /\ aself = None
    /\ LET r == BaseStruct_init_object(SampleStruct, caller, heap)
       IN  /\ r.exc = ""
           /\ aself' = r.self
           /\ heap' = r.heap
    /\ ptouched' = ""
    /\ UNCHANGED <<restOfAlias, caller, snap, nops>>

\* aself.set(key, value): the field writes into the raw_data object
AliasSet(key, value) ==
    /\ nops < MaxOps
    /\ aself # None
    /\ heap' = [heap EXCEPT ![aself.raw_data.a].l =
                   BaseStruct_set(SampleStruct,
                                  [raw_data |-> @, dict |-> {"raw_data"}],
                                  key, value).self.raw_data]
    /\ ptouched' = "struct"
    /\ nops' = nops + 1
    /\ UNCHANGED <<restOfAlias, caller, aself, snap>>

\* caller[i - 1] = x on the caller's bytearray
AliasCallerWrite(i, x) ==
    /\ nops < MaxOps
    /\ heap[caller.a].t = "bytearray"
    /\ heap' = [heap EXCEPT ![caller.a].l[i] = x]
    /\ ptouched' = "caller"
    /\ nops' = nops + 1
    /\ UNCHANGED <<restOfAlias, caller, aself, snap>>

\* snap = bytes(aself)
AliasBytes ==
    /\ aself # None
    /\ snap = None
    /\ LET r == BaseStruct_bytes(aself, heap)
       IN  /\ snap' = r.value
           /\ heap' = r.heap
    /\ ptouched' = ""
    /\ UNCHANGED <<restOfAlias, caller, aself, nops>>

NextAlias ==
    \/ AliasConstruct
    \/ \E kv \in AliasSets : AliasSet(kv[1], kv[2])
    \/ \E i \in {1, 3}, x \in {17} : AliasCallerWrite(i, x)
    \/ AliasBytes

SpecAlias == InitAlias /\ [][NextAlias]_vars

\* C22: the struct has the bytes of the caller's buffer when it is built;
\* afterwards a set on the struct changes neither the caller's buffer nor
\* a bytes(struct) taken earlier, and a change of the caller's bytearray
\* does not change the struct
C22_NoAliasing ==
    [][aself' # None =>
         /\ aself = None => heap'[aself'.raw_data.a].l = heap[caller.a].l
         /\ (aself # None /\ ptouched' = "struct") =>
               /\ heap'[caller.a] = heap[caller.a]
               /\ snap # None => heap'[snap.a] = heap[snap.a]
         /\ (aself # None /\ ptouched' = "caller") =>
               heap'[aself.raw_data.a] = heap[aself.raw_data.a]]_vars

\* the struct was built from a bytearray, bytes(struct) was taken, and
\* set('id', 5) then changed the struct alone
C22_Witness ==
    /\ aself # None /\ snap # None
    /\ ptouched = "struct"
    /\ heap[caller.a] = Obj("bytearray", <<238, 129, 165, 2, 2, 65, 66, 67, 68>>)
    /\ heap[aself.raw_data.a] = Obj("bytearray", <<0, 5, 165, 2, 2, 65, 66, 67, 68>>)
    /\ heap[snap.a] = Obj("bytes", <<238, 129, 165, 2, 2, 65, 66, 67, 68>>)

\* C23: raw_data has raw_data_length bytes after construction and after
\* every set, item or slice assignment and raw_data assignment
C23_FixedLength ==
    Len(bstruct.raw_data) = SampleStruct.raw_data_length

\* C26: set on the string field name (4 bytes) with a str of at most 3
\* characters, or with a bytes value of at most 4 bytes, does not raise and
\* stores the value padded with nulls to 4 bytes
C26_StringFieldAccepts ==
    (bcall # None /\ bcall.op = "set" /\ bcall.form = "method" /\ bcall.key = "name"
        /\ \/ bcall.value.t = "str" /\ Len(bcall.value.s) + 1 <= 4
           \/ IsBytes(bcall.value) /\ Len(bcall.value.s) <= 4)
        => /\ bcall.exc = ""
           /\ Slice(bstruct.raw_data, 5, 9) = ljust0(bcall.value.s, 4)

\* Python's == on the values of numeric fields: ints, bools and IntEnum
\* members compare by number
PyEqual(a, b) ==
    IF IsIntLike(a) /\ IsIntLike(b) THEN AsInt(a) = AsInt(b) ELSE a = b

\* C28: whenever set on an nsmbpy2 field returns without raising, the get
\* that follows returns the value that was set
C28_SetThenGet ==
    (eng = "nsmbpy2" /\ result # None /\ result # Err /\ afterB # None)
        => PyEqual(afterB, written)

-----------------------------------------------------------------------------
(* nsmbpy/level.py: LevelCourse.map_position_to_zone and                   *)
(* prepare_for_saving.  A zone found is known by its place in the list.    *)

MaxZones == 2
MaxSprites == 3

\* the zone at place i of the list of zones
ZoneAt(i) == [t |-> "zone", index |-> i]

\* the test "the position is within the zone"
Within(z, x, y) ==
    (z.x <= x /\ x <= z.x + z.width) /\ (z.y <= y /\ y <= z.y + z.height)

\* xdist, for the zone's x and width; ydist, for its y and height
AxisDist(p, lo, size) ==
    IF p <= lo THEN lo - p
    ELSE IF p >= lo + size THEN p - (lo + size)
    ELSE 0

\* xdist ** 2 + ydist ** 2.  The code compares the square roots of these
\* sums as floats; for 16-bit coordinates the sums are below 2 ** 34, where
\* the float square root is strictly increasing, so their order is the
\* order of the sums.
Dist2(z, x, y) ==
    AxisDist(x, z.x, z.width) * AxisDist(x, z.x, z.width)
    + AxisDist(y, z.y, z.height) * AxisDist(y, z.y, z.height)

\* a test that takes a zone as far away as the closest one for a new
\* record: a faulty variant, under which C24 breaks
NewRecord_orEqual(closest_zone, closest_distance, dist) ==
    closest_zone = None \/ dist <= closest_distance

\* the test "closest_distance is None or dist < closest_distance"
NewRecord(closest_zone, closest_distance, dist) ==
    closest_zone = None \/ dist < closest_distance

\* the loop of map_position_to_zone over zs[k], zs[k + 1], ...
RECURSIVE ZoneLoop(_, _, _, _, _, _)
ZoneLoop(zs, k, x, y, closest_distance, closest_zone) ==
    IF k > Len(zs) THEN closest_zone
    ELSE IF Within(zs[k], x, y) THEN ZoneAt(k)
    ELSE IF NewRecord(closest_zone, closest_distance, Dist2(zs[k], x, y))
    THEN ZoneLoop(zs, k + 1, x, y, Dist2(zs[k], x, y), ZoneAt(k))
    ELSE ZoneLoop(zs, k + 1, x, y, closest_distance, closest_zone)

\* LevelCourse.map_position_to_zone: ZoneAt(i), or None
map_position_to_zone(zs, x, y) == ZoneLoop(zs, 1, x, y, 0, None)

\* the sprite s with the zone id prepare_for_saving gives it
WithZoneId(g, zs, s) ==
    [s EXCEPT !.zone_id =
        IF zs # <<>>
        THEN zs[map_position_to_zone(zs,
                    IF g = "NSMB" THEN s.x * 16 ELSE s.x,
                    IF g = "NSMB" THEN s.y * 16 ELSE s.y).index].id
        ELSE 0]

\* list.sort(key=lambda s: s.zone_id): a stable sort; s is put behind the
\* elements of the sorted list l whose key is not above its own
RECURSIVE InsertByZone(_, _)
InsertByZone(l, s) ==
    IF l = <<>> THEN <<s>>
    ELSE IF l[Len(l)].zone_id <= s.zone_id THEN Append(l, s)
    ELSE Append(InsertByZone(SubSeq(l, 1, Len(l) - 1), s), l[Len(l)])

RECURSIVE SortByZone(_, _)
SortByZone(l, k) ==
    IF k = 0 THEN <<>> ELSE InsertByZone(SortByZone(l, k - 1), l[k])

\* a prepare_for_saving that sorts before it assigns the zone ids: a
\* faulty variant, under which C30 breaks
prepare_for_saving_sort_first(g, zs, ss) ==
    [sprites |-> [i \in 1..Len(ss) |-> WithZoneId(g, zs, SortByZone(ss, Len(ss))[i])],
     used_sprite_ids |-> {ss[i].type : i \in 1..Len(ss)}]

\* LevelCourse.prepare_for_saving(game) with the default options: the
\* sprites and used_sprite_ids afterwards
prepare_for_saving(g, zs, ss) ==
    [sprites |-> SortByZone([i \in 1..Len(ss) |-> WithZoneId(g, zs, ss[i])], Len(ss)),
     used_sprite_ids |-> {ss[i].type : i \in 1..Len(ss)}]

\* the lists of at most n elements of S
RECURSIVE ListsUpTo(_, _)
ListsUpTo(S, n) ==
    IF n = 0 THEN {<<>>}
    ELSE ListsUpTo(S, n - 1)
         \cup {Append(l, e) : l \in {m \in ListsUpTo(S, n - 1) : Len(m) = n - 1}, e \in S}

\* the zones of the courses: two that overlap and one apart, with ids out
\* of order
SomeZones ==
    {[x |-> 0, y |-> 0, width |-> 32, height |-> 32, id |-> 2],
     [x |-> 16, y |-> 0, width |-> 32, height |-> 32, id |-> 1],
     [x |-> 64, y |-> 0, width |-> 16, height |-> 16, id |-> 0]}

\* the sprites of the courses, before they are numbered
SomeSprites ==
    {[n |-> 0, type |-> ty, x |-> p[1], y |-> p[2], zone_id |-> 0] :
        ty \in {5, 9}, p \in {<<2, 0>>, <<56, 40>>}}

\* the positions looked up
SomePositions == {0, 16, 40, 48, 56, 90} \X {0, 40}

InitCourse ==
    /\ game \in FieldGames
    /\ EarlyIdle /\ CopyIdle /\ AliasIdle /\ ContainerIdle /\ ArrayIdle
    /\ zones \in ListsUpTo(SomeZones, MaxZones)
    /\ \E l \in ListsUpTo(SomeSprites, MaxSprites) :
          sprites = [i \in 1..Len(l) |-> [l[i] EXCEPT !.n = i]]
    /\ used_sprite_ids = {}
    /\ cbefore = None
    /\ nprep = 0
    /\ zpos = None
    /\ zret = None

\* zret = course.map_position_to_zone(x, y), on a course without sprites
MapPosition(x, y) ==
    /\ sprites = <<>>
    /\ zpos = None
    /\ zpos' = [x |-> x, y |-> y]
    /\ zret' = map_position_to_zone(zones, x, y)
    /\ UNCHANGED <<restOfCourse, zones, sprites, used_sprite_ids, cbefore, nprep>>

\* course.prepare_for_saving(game)
Prepare ==
    /\ sprites # <<>>
    /\ nprep < 2
    /\ LET r == prepare_for_saving(game, zones, sprites)
       IN  /\ sprites' = r.sprites
           /\ used_sprite_ids' = r.used_sprite_ids
    /\ cbefore' = [sprites |-> sprites, used_sprite_ids |-> used_sprite_ids]
    /\ nprep' = nprep + 1
    /\ UNCHANGED <<restOfCourse, zones, zpos, zret>>

NextCourse ==
    \/ \E p \in SomePositions : MapPosition(p[1], p[2])
    \/ Prepare

SpecCourse == InitCourse /\ [][NextCourse]_vars

\* the places of the zones that contain the position
Containing(zs, x, y) ==
    {i \in 1..Len(zs) :
        zs[i].x <= x /\ x <= zs[i].x + zs[i].width
        /\ zs[i].y <= y /\ y <= zs[i].y + zs[i].height}

\* the squared distance from the position to the rectangle of z
RectDist2(z, x, y) ==
    LET Max(a, b) == IF a > b THEN a ELSE b
        dx == Max(Max(z.x - x, x - (z.x + z.width)), 0)
        dy == Max(Max(z.y - y, y - (z.y + z.height)), 0)
    IN  dx * dx + dy * dy

\* the places of the zones at the least distance from the position
Nearest(zs, x, y) ==
    {i \in 1..Len(zs) :
        \A j \in 1..Len(zs) : RectDist2(zs[i], x, y) <= RectDist2(zs[j], x, y)}

SetMinimum(S) == CHOOSE i \in S : \A j \in S : i <= j

\* the zone C24 names for a position
NamedZone(zs, x, y) ==
    IF zs = <<>> THEN None
    ELSE IF Containing(zs, x, y) # {} THEN ZoneAt(SetMinimum(Containing(zs, x, y)))
    ELSE ZoneAt(SetMinimum(Nearest(zs, x, y)))

\* C24: map_position_to_zone returns None without zones, the first zone in
\* list order that contains the position when one does, and otherwise the
\* earliest zone among those at the least distance
C24_MapPositionToZone ==
    zpos # None => zret = NamedZone(zones, zpos.x, zpos.y)

\* the position (56, 0) is in no zone and as far from the zone at
\* 16..48 as from the zone at 64..80, which comes second: the first is
\* returned
C24_Witness ==
    /\ zpos = [x |-> 56, y |-> 0]
    /\ Len(zones) = 2
    /\ zones[1].x = 16 /\ zones[2].x = 64
    /\ Containing(zones, 56, 0) = {}
    /\ RectDist2(zones[1], 56, 0) = RectDist2(zones[2], 56, 0)
    /\ zret = ZoneAt(1)

\* the place of the sprite object n in the list l
Place(l, n) == CHOOSE i \in 1..Len(l) : l[i].n = n

\* the zone id C30 names for the sprite s
NamedZoneId(g, zs, s) ==
    IF zs = <<>> THEN 0
    ELSE zs[NamedZone(zs, IF g = "NSMB" THEN s.x * 16 ELSE s.x,
                          IF g = "NSMB" THEN s.y * 16 ELSE s.y).index].id

\* C30: after prepare_for_saving every sprite has the id of the zone of
\* its position (0 without zones), the sprites are in non-decreasing
\* zone_id order with equal ids in their previous order, used_sprite_ids
\* is the set of their types, the sprites are the same objects with
\* nothing but zone_id changed, and a second call changes nothing
C30_PrepareForSaving ==
    nprep >= 1 =>
        /\ \A i \in 1..Len(sprites) :
              sprites[i].zone_id = NamedZoneId(game, zones, sprites[i])
        /\ \A i, j \in 1..Len(sprites) :
              i < j =>
                 /\ sprites[i].zone_id <= sprites[j].zone_id
                 /\ sprites[i].zone_id = sprites[j].zone_id =>
                       Place(cbefore.sprites, sprites[i].n)
                           < Place(cbefore.sprites, sprites[j].n)
        /\ used_sprite_ids = {sprites[i].type : i \in 1..Len(sprites)}
        /\ Len(sprites) = Len(cbefore.sprites)
        /\ \A j \in 1..Len(cbefore.sprites) :
              \E i \in 1..Len(sprites) :
                 sprites[i] = [cbefore.sprites[j] EXCEPT !.zone_id = sprites[i].zone_id]
        /\ nprep = 2 =>
              /\ sprites = cbefore.sprites
              /\ used_sprite_ids = cbefore.used_sprite_ids

\* three sprites of an NSMBW course whose zones have the ids 2 and 1: the
\* first and third are in the first zone, the second is nearest the second
\* zone and is moved to the front; the other two keep their order
C30_Witness ==
    /\ game = "NSMBW"
    /\ nprep = 1
    /\ Len(zones) = 2 /\ zones[1].id = 2 /\ zones[2].id = 1
    /\ Len(sprites) = 3
    /\ cbefore.sprites[1].x = 2 /\ cbefore.sprites[2].x = 56 /\ cbefore.sprites[3].x = 2
    /\ <<sprites[1].n, sprites[2].n, sprites[3].n>> = <<2, 1, 3>>
    /\ <<sprites[1].zone_id, sprites[2].zone_id, sprites[3].zone_id>> = <<1, 2, 2>>
    /\ used_sprite_ids = {5, 9}

-----------------------------------------------------------------------------
(* nsmbpy/level.py: save_course_blocks and load_course_blocks, the block   *)
(* container of a course file: a header of (start, size) pairs, the        *)
(* metadata, the blocks.                                                   *)

MaxBlocks == 2

\* while len(data) % 4: data.append(0)
Pad4(data) == data \o [i \in 1..((4 - (Len(data) % 4)) % 4) |-> 0]

\* struct.pack(endianness + 'II', a, b)
PackII(e, a, b) ==
    (IF e = "<" THEN Reverse(NatToBytes(a, 4)) ELSE NatToBytes(a, 4))
    \o (IF e = "<" THEN Reverse(NatToBytes(b, 4)) ELSE NatToBytes(b, 4))

\* the loop of save_course_blocks over blocks[i], blocks[i + 1], ...
RECURSIVE SaveBlocks(_, _, _, _)
SaveBlocks(blocks, i, e, data) ==
    IF i > Len(blocks) THEN data
    ELSE SaveBlocks(blocks, i + 1, e,
            Pad4(Overwrite(data, (i - 1) * 8, PackII(e, Len(data), Len(blocks[i])))
                 \o blocks[i]))

\* save_course_blocks
save_course_blocks(blocks, metadata, e) ==
    SaveBlocks(blocks, 1, e, Pad4([i \in 1..(Len(blocks) * 8) |-> 0] \o metadata))

\* struct.unpack_from(endianness + 'II', data, i * 8) for the block at place
\* i + 1: <<start, size>>
StartAndSize(data, i, e) ==
    <<unpack_from(e, "I", data, i * 8).i, unpack_from(e, "I", data, i * 8 + 4).i>>

\* load_course_blocks: the blocks and the metadata; Err is the struct.error
\* for data shorter than its header
load_course_blocks(data, num_blocks, e) ==
    IF Len(data) < num_blocks * 8 THEN Err
    ELSE [blocks |-> [i \in 1..num_blocks |->
                        Slice(data, StartAndSize(data, i - 1, e)[1],
                              StartAndSize(data, i - 1, e)[1]
                                  + StartAndSize(data, i - 1, e)[2])],
          metadata |->
             IF num_blocks > 0 /\ StartAndSize(data, 0, e)[1] # num_blocks * 8
             THEN Slice(data, num_blocks * 8, StartAndSize(data, 0, e)[1])
             ELSE <<>>]

\* the block byte strings and the metadata byte strings of the scenario
SomeBlocks == {<<>>, <<1>>, <<1, 2, 3, 4>>, <<9, 8, 7, 6, 5>>}
SomeMetadata == {<<>>, <<7>>, <<7, 7, 7, 7>>, <<7, 7, 7, 7, 7, 7>>}

InitContainer ==
    /\ game = "NSMB"
    /\ EarlyIdle /\ CopyIdle /\ AliasIdle /\ CourseIdle /\ ArrayIdle
    /\ cblocks \in ListsUpTo(SomeBlocks, MaxBlocks)
    /\ cmeta \in SomeMetadata
    /\ cend \in {"<", ">"}
    /\ cdata = None
    /\ cloaded = None

\* cdata = save_course_blocks(cblocks, cmeta, cend)
SaveContainer ==
    /\ cdata = None
    /\ cdata' = BytesV(save_course_blocks(cblocks, cmeta, cend))
    /\ UNCHANGED <<restOfContainer, cblocks, cmeta, cend, cloaded>>

\* cloaded = load_course_blocks(cdata, len(cblocks), cend)
LoadContainer ==
    /\ cdata # None
    /\ cloaded = None
    /\ cloaded' = load_course_blocks(cdata.s, Len(cblocks), cend)
    /\ UNCHANGED <<restOfContainer, cblocks, cmeta, cend, cdata>>

NextContainer == SaveContainer \/ LoadContainer

SpecContainer == InitContainer /\ [][NextContainer]_vars

\* the header of the saved data describes the blocks: one pair per block,
\* every start a multiple of 4 behind the header, every region inside the
\* data, as long as its block and before the next region
HeaderDescribesBlocks ==
    \A i \in 1..Len(cblocks) :
        LET start == StartAndSize(cdata.s, i - 1, cend)[1]
            size == StartAndSize(cdata.s, i - 1, cend)[2]
        IN  /\ start % 4 = 0
            /\ start >= Len(cblocks) * 8
            /\ size = Len(cblocks[i])
            /\ start + size <= Len(cdata.s)
            /\ i < Len(cblocks) =>
                  start + size <= StartAndSize(cdata.s, i, cend)[1]

\* C29: the header describes the blocks, and load_course_blocks
\* returns exactly the blocks and the metadata that were saved, for every
\* metadata and every list of blocks
C29_RoundTripAll ==
    /\ cdata # None => HeaderDescribesBlocks
    /\ cloaded # None =>
          /\ cloaded # Err
          /\ cloaded.blocks = cblocks
          /\ cloaded.metadata = cmeta

-----------------------------------------------------------------------------
(* nsmbpy2/base_struct.py: save_struct_array and load_struct_array.        *)

MaxElements == 2

\* bytes.startswith
startswith(bs, prefix) ==
    Len(prefix) <= Len(bs) /\ SubSeq(bs, 1, Len(prefix)) = prefix

\* b''.join(l)
RECURSIVE JoinBytes(_)
JoinBytes(l) == IF l = <<>> THEN <<>> ELSE l[1] \o JoinBytes(Tail(l))

\* save_struct_array: the bytes of the elements, then the terminator
save_struct_array(elements, terminator) ==
    JoinBytes([i \in 1..Len(elements) |-> elements[i].raw_data]) \o terminator

\* the loop of load_struct_array from item_offset on; Err is the
\* ValueError of the constructor for an item of the wrong length
RECURSIVE LoadArrayFrom(_, _, _, _, _)
LoadArrayFrom(data, c, terminator, item_offset, arr) ==
    IF item_offset >= Len(data) - Len(terminator) THEN arr
    ELSE IF terminator # <<>>
            /\ startswith(Slice(data, item_offset, item_offset + c.raw_data_length),
                          terminator)
    THEN arr
    ELSE IF BaseStruct_init(c, BytesV(Slice(data, item_offset,
                                            item_offset + c.raw_data_length))).exc # ""
    THEN Err
    ELSE LoadArrayFrom(data, c, terminator, item_offset + c.raw_data_length,
            Append(arr, BaseStruct_init(c, BytesV(Slice(data, item_offset,
                                item_offset + c.raw_data_length))).self))

\* load_struct_array
load_struct_array(data, c, terminator) == LoadArrayFrom(data, c, terminator, 0, <<>>)

\* the terminators of the scenario
SomeTerminators == {<<255>>, <<255, 255, 255, 255>>, <<0, 7>>}

InitArray ==
    /\ game = "NSMB"
    /\ EarlyIdle /\ CopyIdle /\ AliasIdle /\ CourseIdle /\ ContainerIdle
    /\ aitems \in ListsUpTo({BaseStruct_init(SampleStruct, data).self :
                                data \in BaseInputs}, MaxElements)
    /\ aterm \in SomeTerminators
    /\ asaved = None
    /\ aloaded = None

\* asaved = save_struct_array(aitems, terminator=aterm)
SaveArray ==
    /\ asaved = None
    /\ asaved' = BytesV(save_struct_array(aitems, aterm))
    /\ UNCHANGED <<restOfArray, aitems, aterm, aloaded>>

\* aloaded = load_struct_array(asaved, SampleStruct, terminator=aterm)
LoadArray ==
    /\ asaved # None
    /\ aloaded = None
    /\ aloaded' = ListV(load_struct_array(asaved.s, SampleStruct, aterm))
    /\ UNCHANGED <<restOfArray, aitems, aterm, asaved>>

NextArray == SaveArray \/ LoadArray

SpecArray == InitArray /\ [][NextArray]_vars

\* C25: load_struct_array of what save_struct_array made returns all the
\* items in order with equal bytes, whatever bytes the items begin with
C25_TerminatorOnlyEnds ==
    aloaded # None =>
        /\ Len(aloaded.l) = Len(aitems)
        /\ \A i \in 1..Len(aitems) : aloaded.l[i].raw_data = aitems[i].raw_data

-----------------------------------------------------------------------------
(* The fidelity scenario: an instance of a level.py struct is constructed  *)
(* from keyword arguments, saved for a game, and the saved bytes are       *)
(* loaded again.  It uses the variables and the Save and LoadSaved actions *)
(* of the struct scenario.                                                 *)

FidelityClasses == Classes \cup {LevelZoneBounds}

\* the keyword arguments of the constructor calls
FidelityKwargs(c) ==
    IF c.name = "LevelZoneBounds"
    THEN {EmptyDict, "upper" :> IntV(-2), "id" :> IntV(3), "id" :> IntV(70000),
          "vertical_scroll_limit" :> IntV(5)}
    ELSE ItemKwargs(c)

\* inst = cls(**kwargs)
InitFidelity ==
    /\ game \in Games
    /\ cls \in FidelityClasses
    /\ inst \in {PerGameStruct_init(cls, kw) : kw \in FidelityKwargs(cls)}
    /\ src = None
    /\ prev = None
    /\ nsets = 0
    /\ lastset = None
    /\ out = None
    /\ got = None
    /\ BlockIdle /\ VariesIdle /\ EnumIdle /\ FieldIdle /\ BaseIdle /\ TransIdle /\ LateIdle

NextFidelity == Save \/ LoadSaved

SpecFidelity == InitFidelity /\ [][NextFidelity]_vars

\* a value the format represents: saved on its own it raises nothing and
\* reads back as itself
LegalValue(f, g, v) ==
    LET n == f.offset + (IF f.kind = "num" THEN calcsize(f.format_char) ELSE f.length)
        saved == Field_save(f, g, Zeros(n), v)
    IN  /\ ValidValue(f, g, v)
        /\ saved # Err
        /\ Field_load(f, g, saved.s) = v

\* every field that has a format for the game holds a legal value
LegalInstance(c, g, self) ==
    \A n \in FieldNames(c) :
        get_format(c, n, g) # None => LegalValue(get_format(c, n, g), g, self[n])

\* C27: when an instance whose fields hold legal values was saved for a
\* game and the saved bytes were loaded for the same game, every field that
\* has a format for the game reads as the value the saved instance held
C27_FieldFidelity ==
    (prev # None /\ LegalInstance(cls, game, prev)) =>
        /\ inst # Err
        /\ \A n \in FieldNames(cls) :
              get_format(cls, n, game) # None => inst[n] = prev[n]

====
